---------------------------- MODULE Spec2Model ----------------------------
(***************************************************************************)
(* WebSDR Atlas backend: the waterfall streaming session                   *)
(* (StreamingController.getWaterfallStream) and the StreamingService       *)
(* operations behind it (getWaterfallLine, fetchWaterfallData,             *)
(* fetchWaterfallHeader with its header cache, checkStationStatus).        *)
(*                                                                         *)
(* Time is kept as the milliseconds left on every pending timer and        *)
(* pending network event; Advance lets the time to the nearest of them     *)
(* pass.  A cache entry carries its age, Date.now() - fetchedAt.           *)
(***************************************************************************)
EXTENDS Integers, Sequences, FiniteSets, TLC

\* ------------------------------------------------------------------ bounds
MaxTicks == 3
MaxHeaderCalls == 2
MaxCalls == 1
LiveWrap == 4

\* ------------------------------------------------------- program constants
TICK_INTERVAL_MS == 33
DEFAULT_MIN_HZ == 7000000
DEFAULT_MAX_HZ == 7300000
numBins == 512
HEADER_CACHE_TTL_MS == 5 * 60 * 1000
MIN_WATERFALL_DATA_LENGTH == 10
HEADER_TIMEOUT_MS == 5000
DATA_TIMEOUT_MS == 3000
STATUS_TIMEOUT_MS == 5000
DEFAULT_TOTAL_WIDTH == 1024

Off == -1
NoUrl == "none"

Min2(a, b) == IF a <= b THEN a ELSE b

\* ------------------------------------------------------ the station records
\* prisma.station.findUnique: the persistence collaborator, queried by id.
StationIds == {"s1", "s2", "nosuch"}
StationUrlOf(id) ==
    IF id = "s1" THEN "http://websdr.example:8901/"
    ELSE IF id = "s2" THEN "http://kiwisdr.example:8073"
    ELSE IF id = "s3" THEN "http://sdr.example.org"
    ELSE IF id = "s4" THEN "https://websdr.kiwisdr.example/"
    ELSE NoUrl
FindUnique(id) == StationUrlOf(id)
Urls == {StationUrlOf(id) : id \in {"s1", "s2"}}
InfoStationIds == StationIds \cup {"s3", "s4"}

\* ------------------------------------------------------- request parameters
\* A numeric query parameter is absent or a string of decimal digits, here
\* the sequence of its digits; useReal is absent ("undefined") or a string.
Absent == [given |-> FALSE, text |-> <<>>]
Query(digits) == [given |-> TRUE, text |-> digits]

RECURSIVE parseInt(_)
parseInt(s) == IF s = <<>> THEN 0 ELSE 10 * parseInt(SubSeq(s, 1, Len(s) - 1)) + s[Len(s)]

Truthy(q) == q.given /\ q.text # <<>>
QueryOr(q, dflt) == IF Truthy(q) THEN parseInt(q.text) ELSE dflt

freqMinOf(minHz) == QueryOr(minHz, DEFAULT_MIN_HZ)
freqMaxOf(maxHz) == QueryOr(maxHz, DEFAULT_MAX_HZ)
attemptRealDataOf_WrongLiteral(useReal) == useReal # "FALSE"
attemptRealDataOf(useReal) == useReal # "false"

QueryWindows == { <<Absent, Absent>>,
                  <<Query(<<7,1,0,0,0,0,0>>), Query(<<7,2,0,0,0,0,0>>)>> }
UseRealValues == {"undefined", "true", "false"}
SessionStations == {"s1", "nosuch"}

\* --------------------------------------------------- what the network does
\* The delays, in ms, after which a station may answer.  Profile "session":
\* within a tick, after more than a tick, or after every deadline; "slow":
\* every answer takes more than a tick; "header" and "direct": at once or
\* late, for a caller that no tick drives.
LookupDelays == {1}
ResponseDelays(profile) ==
    IF profile = "slow" THEN {50}
    ELSE IF profile = "session" THEN {10, 50, 6000}
    ELSE {10, 6000}
BodyDelays(profile) ==
    IF profile = "slow" THEN {5}
    ELSE IF profile = "header" THEN {5, 4000}
    ELSE {5, 6000}
LookupThrows(profile) == IF profile = "slow" THEN {FALSE} ELSE BOOLEAN
BodyLengths == {9, 10, 512}
Answers(op) == IF op = "status"
               THEN {"ok", "status405", "status500", "networkError"}
               ELSE {"ok", "status500", "networkError"}
IdleSteps == {HEADER_CACHE_TTL_MS - 1, HEADER_CACHE_TTL_MS}

\* What the environment did to a call, kept with its result.
Fact(what, len, text) == [what |-> what, len |-> len, text |-> text]
NoFact == Fact("none", 0, <<>>)

\* ------------------------------------------------------ the header response
\* The text of a ~~waterfallheader response, as the sequence of the
\* assignments in it that the extraction patterns can match.
Assign(k, i, name, v) == [k |-> k, i |-> i, name |-> name, v |-> v]
TextA == << Assign("band_name", 0, "80m", 0), Assign("band_low", 0, "", 3500),
            Assign("band_high", 0, "", 3800), Assign("band_name", 1, "40m", 0),
            Assign("band_low", 1, "", 7000), Assign("band_high", 1, "", 7300),
            Assign("totbw", 0, "", 2048) >>
TextB == << Assign("band_name", 1, "20m", 0), Assign("band_low", 1, "", 14000),
            Assign("band_high", 1, "", 14350), Assign("band_name", 0, "160m", 0),
            Assign("band_low", 0, "", 1800) >>
TextGarbage == << Assign("html", 0, "", 0) >>
Texts == {TextA, TextB, TextGarbage}
MaxBandIdx == 1

Matches(text, k) == {j \in 1..Len(text) : text[j].k = k}
MatchesAt(text, k, i) == {j \in Matches(text, k) : text[j].i = i}
Last(js) == CHOOSE j \in js : \A x \in js : x <= j
First(js) == CHOOSE j \in js : \A x \in js : j <= x

\* no pattern of parseWaterfallHeader matches anything in the text
Unparsable(text) ==
    \A k \in {"band_name", "band_low", "band_high", "totbw"} : Matches(text, k) = {}

RECURSIVE BandsFrom(_, _)
BandsFrom(text, idx) ==
    IF idx > MaxBandIdx THEN <<>>
    ELSE IF /\ MatchesAt(text, "band_name", idx) # {}
            /\ MatchesAt(text, "band_low", idx) # {}
            /\ MatchesAt(text, "band_high", idx) # {}
         THEN << [name |-> text[Last(MatchesAt(text, "band_name", idx))].name,
                  startHz |-> text[Last(MatchesAt(text, "band_low", idx))].v * 1000,
                  endHz |-> text[Last(MatchesAt(text, "band_high", idx))].v * 1000,
                  startPixel |-> 0, endPixel |-> 0] >> \o BandsFrom(text, idx + 1)
         ELSE BandsFrom(text, idx + 1)

\* A WaterfallHeader; age is Date.now() - fetchedAt, by is the call that
\* fetched it (history).  NoHeader is null.
NoHeader == [bands |-> <<>>, totalWidth |-> 0, age |-> Off, by |-> 0]

parseWaterfallHeader(text, by) ==
    [bands |-> BandsFrom(text, 0),
     totalWidth |-> IF Matches(text, "totbw") # {}
                    THEN text[First(Matches(text, "totbw"))].v
                    ELSE DEFAULT_TOTAL_WIDTH,
     age |-> 0, by |-> by]

\* ---------------------------------------------------------------- the lines
\* A WaterfallLine: freqStepHz is the fraction stepNum / stepDen, n is
\* magnitudes.length.  tick and fact are history, not part of the line.
Line(tick, source, fact, start, num, den, n) ==
    [tick |-> tick, source |-> source, fact |-> fact,
     freqStartHz |-> start, stepNum |-> num, stepDen |-> den, n |-> n]
NoLine == Line(0, "none", NoFact, 0, 0, 0, 0)

generateSimulatedWaterfallLine(tick, fact, freqStartHz, freqEndHz, bins) ==
    Line(tick, "simulated", fact, freqStartHz, freqEndHz - freqStartHz, bins, bins)

\* the line fetchWaterfallData builds from a body of len bytes
RealLine(tick, fact, minHz, maxHz, len) ==
    Line(tick, "real", fact, minHz, maxHz - minHz, len, len)

\* ------------------------------------------------------------- the adapters
\* Where an adapter looks into a URL, the URL is the sequence of its
\* characters.
Chars(url) ==
    IF url = "http://websdr.example:8901/"
    THEN << "h","t","t","p",":","/","/","w","e","b","s","d","r",".",
            "e","x","a","m","p","l","e",":","8","9","0","1","/" >>
    ELSE IF url = "http://kiwisdr.example:8073"
    THEN << "h","t","t","p",":","/","/","k","i","w","i","s","d","r",".",
            "e","x","a","m","p","l","e",":","8","0","7","3" >>
    ELSE IF url = "http://sdr.example.org"
    THEN << "h","t","t","p",":","/","/","s","d","r",".",
            "e","x","a","m","p","l","e",".","o","r","g" >>
    ELSE IF url = "https://websdr.kiwisdr.example/"
    THEN << "h","t","t","p","s",":","/","/","w","e","b","s","d","r",".",
            "k","i","w","i","s","d","r",".","e","x","a","m","p","l","e","/" >>
    ELSE <<>>

\* String.prototype.includes
includes(s, sub) ==
    \E i \in 1..(Len(s) - Len(sub) + 1) : SubSeq(s, i, i + Len(sub) - 1) = sub

StartsWith(s, prefix) == Len(s) >= Len(prefix) /\ SubSeq(s, 1, Len(prefix)) = prefix

\* url.replace(/\/$/, '')
StripTrailingSlash(s) ==
    IF s # <<>> /\ s[Len(s)] = "/" THEN SubSeq(s, 1, Len(s) - 1) ELSE s

\* url.replace(/^https?/, 'ws')
ReplaceScheme(s) ==
    IF StartsWith(s, <<"h","t","t","p","s">>)
    THEN <<"w","s">> \o SubSeq(s, 6, Len(s))
    ELSE IF StartsWith(s, <<"h","t","t","p">>)
    THEN <<"w","s">> \o SubSeq(s, 5, Len(s))
    ELSE s

StandardCanHandle(url) ==
    \/ includes(url, <<":","8","9","0","1">>)
    \/ includes(url, <<"w","e","b","s","d","r">>)

KiwiCanHandle(url) ==
    \/ includes(url, <<"k","i","w","i","s","d","r">>)
    \/ includes(url, <<":","8","0","7","3">>)

canHandle(adapter, url) ==
    IF adapter = "KiwiSdrAdapter" THEN KiwiCanHandle(url) ELSE StandardCanHandle(url)

getWaterfallUrl(adapter, baseUrl) ==
    IF adapter = "KiwiSdrAdapter"
    THEN StripTrailingSlash(ReplaceScheme(baseUrl))
            \o <<"/","k","i","w","i","/","w","a","t","e","r","f","a","l","l">>
    ELSE StripTrailingSlash(baseUrl)
            \o <<"/","~","~","w","a","t","e","r","f","a","l","l","h","e","a","d","e","r">>

\* the adapter list of the service, in its order
adapters_StandardFirst == <<"StandardWebSdrAdapter", "KiwiSdrAdapter">>
adapters == <<"KiwiSdrAdapter", "StandardWebSdrAdapter">>
NoAdapter == "null"

getAdapter(url) ==
    LET able == {i \in 1..Len(adapters) : canHandle(adapters[i], url)} IN
    IF able = {} THEN NoAdapter ELSE adapters[First(able)]

\* What getWaterfallStreamInfo returns; NoInfo is null.
NoInfo == [url |-> <<>>, proxyUrl |-> <<>>, type |-> "null"]

TypeOf_Swapped(adapter) == IF adapter = "KiwiSdrAdapter" THEN "standard" ELSE "kiwisdr"
TypeOf(adapter) == IF adapter = "KiwiSdrAdapter" THEN "kiwisdr" ELSE "standard"

StreamInfo(stationId, stationUrl) ==
    LET adapter == getAdapter(Chars(stationUrl))
        proxyUrl == <<"/api/streaming/waterfall/", stationId>> IN
    IF adapter = NoAdapter
    THEN [url |-> Chars(stationUrl), proxyUrl |-> proxyUrl, type |-> "unknown"]
    ELSE [url |-> getWaterfallUrl(adapter, Chars(stationUrl)), proxyUrl |-> proxyUrl,
          type |-> TypeOf(adapter)]

\* ---------------------------------------------------------------- samples
\* A magnitude is kept exactly: in form "pow10" it is 10^(v / DB_RANGE), in
\* form "micro" it is v / 10^6.
DB_OFFSET == 128
DB_RANGE == 40
Unit == 1000000

Sample(form, v) == [form |-> form, v |-> v]
Pow10(num) == Sample("pow10", num)
Micro(v) == Sample("micro", v)

\* Math.max(0, x) and Math.min(x, 1.0); a power of ten is positive, and at
\* most 1.0 exactly when its exponent is at most 0.
MathMax0(s) == IF s.form = "micro" /\ s.v < 0 THEN Micro(0) ELSE s
MathMin1(s) ==
    IF s.form = "pow10" THEN (IF s.v > 0 THEN Pow10(0) ELSE s)
    ELSE (IF s.v > Unit THEN Micro(Unit) ELSE s)

InUnitInterval(s) == IF s.form = "pow10" THEN s.v <= 0 ELSE 0 <= s.v /\ s.v <= Unit
IsOne(s) == IF s.form = "pow10" THEN s.v = 0 ELSE s.v = Unit
Positive(s) == s.form = "pow10" \/ s.v > 0

\* the conversion of one byte of the body (dB scale) to a linear magnitude
decodeByte_Unclamped(dbValue) == Pow10(dbValue - DB_OFFSET)
decodeByte(dbValue) == MathMin1(MathMax0(Pow10(dbValue - DB_OFFSET)))

DecodedMagnitudes_Reversed(data) ==
    [i \in 1..Len(data) |-> decodeByte(data[Len(data) + 1 - i])]
DecodedMagnitudes(data) == [i \in 1..Len(data) |-> decodeByte(data[i])]

TooShort_Inclusive(len) == len <= MIN_WATERFALL_DATA_LENGTH
TooShort(len) == len < MIN_WATERFALL_DATA_LENGTH

\* ---------------------------------------------------- the simulated line
\* Math.random() is read from a tape: draw k is a number of thousandths.
Draw(tape, k) == (tape.seed + (k - 1) * tape.stride) % 1000

\* freqHz of bin i, times the bin count; the tests on freqMHz in whole Hz
FreqTimesBins(freqStartHz, freqEndHz, bins, i) ==
    freqStartHz * bins + i * (freqEndHz - freqStartHz)
Abs(x) == IF x < 0 THEN -x ELSE x
NearFt8(f, bins) == Abs((f % (1000000 * bins)) - 74000 * bins) < 2000 * bins
InCwPortion(f, bins) == (f % (1000000 * bins)) < 50000 * bins

\* One pass of the loop body: the value of bin i before the clamp, and the
\* position of the tape after it.  k is the position of the first draw.
BinValue(tape, k, noiseFloor, f, bins) ==
    LET v0 == noiseFloor + Draw(tape, k) * 50
        ft8 == NearFt8(f, bins)
        v1 == IF ft8 THEN v0 + 300000 + Draw(tape, k + 1) * 400 ELSE v0
        k1 == IF ft8 THEN k + 2 ELSE k + 1
        cw == InCwPortion(f, bins)
        cwOn == cw /\ Draw(tape, k1) > 700
        v2 == IF cwOn THEN v1 + 200000 + Draw(tape, k1 + 1) * 300 ELSE v1
        k2 == IF cwOn THEN k1 + 2 ELSE IF cw THEN k1 + 1 ELSE k1
        rndOn == Draw(tape, k2) > 980
        v3 == IF rndOn THEN v2 + 400000 + Draw(tape, k2 + 1) * 400 ELSE v2
        k3 == IF rndOn THEN k2 + 2 ELSE k2 + 1
    IN [value |-> v3, k |-> k3]

Push_Unclamped(value) == Micro(value)
Push(value) == MathMin1(Micro(value))

RECURSIVE GeneratedFrom(_, _, _, _, _, _, _)
GeneratedFrom(i, tape, k, noiseFloor, freqStartHz, freqEndHz, bins) ==
    IF i >= bins THEN <<>>
    ELSE LET b == BinValue(tape, k, noiseFloor,
                           FreqTimesBins(freqStartHz, freqEndHz, bins, i), bins)
         IN <<Push(b.value)>>
              \o GeneratedFrom(i + 1, tape, b.k, noiseFloor, freqStartHz, freqEndHz, bins)

GeneratedMagnitudes(freqStartHz, freqEndHz, bins, tape) ==
    GeneratedFrom(0, tape, 2, 100000 + Draw(tape, 1) * 50, freqStartHz, freqEndHz, bins)

\* ------------------------------------------------- the propagation rings
\* isDay of getRingsForStation, from the UTC hour of the call
isDay(hour) == hour >= 6 /\ hour <= 18

estimateRadius_VhfFar(freqHz, day) == IF freqHz >= 30000000 THEN 1000 ELSE 500
estimateRadius(freqHz, day) ==
    IF freqHz >= 30000000 THEN 100
    ELSE IF freqHz >= 21000000 THEN (IF day THEN 5000 ELSE 500)
    ELSE IF freqHz >= 14000000 THEN (IF day THEN 8000 ELSE 4000)
    ELSE IF freqHz >= 7000000 THEN (IF day THEN 3000 ELSE 5000)
    ELSE IF freqHz >= 3500000 THEN (IF day THEN 500 ELSE 2000)
    ELSE IF freqHz >= 1800000 THEN (IF day THEN 200 ELSE 1500)
    ELSE (IF day THEN 500 ELSE 1000)

\* x.toFixed(1) and x.toFixed(0) of x = freqHz / per, as tenths and as units
Rounded(freqHz, per) ==
    (freqHz \div per) + (IF 2 * (freqHz % per) >= per THEN 1 ELSE 0)

\* the label: its number in tenths (GHz, MHz) or in units (kHz), and its unit
getFrequencyLabel(freqHz) ==
    IF freqHz >= 1000000000 THEN [number |-> Rounded(freqHz, 100000000), unit |-> "GHz"]
    ELSE IF freqHz >= 1000000 THEN [number |-> Rounded(freqHz, 100000), unit |-> "MHz"]
    ELSE [number |-> Rounded(freqHz, 1000), unit |-> "kHz"]

Ring(lat, lon, freq, day) ==
    [centerLat |-> lat, centerLon |-> lon, frequencyHz |-> freq,
     radiusKm |-> estimateRadius(freq, day), label |-> getFrequencyLabel(freq)]

getRingsForStation_Reversed(stationLat, stationLon, freqsHz, hour) ==
    [i \in 1..Len(freqsHz) |->
        Ring(stationLat, stationLon, freqsHz[Len(freqsHz) + 1 - i], isDay(hour))]
getRingsForStation(stationLat, stationLon, freqsHz, hour) ==
    [i \in 1..Len(freqsHz) |-> Ring(stationLat, stationLon, freqsHz[i], isDay(hour))]

\* ------------------------------------------------------------ the crawler
\* the URLs of two seed stations, and of a station only websdr.org lists
TWENTE == <<"h","t","t","p",":","/","/","w","e","b","s","d","r",".","e","w","i",".","u","t","w","e","n","t","e",".","n","l",":","8","9","0","1","/">>
SUWS == <<"h","t","t","p",":","/","/","s","u","w","s",".","n","e","t","/","w","e","b","s","d","r","/">>
EXAMPLE == <<"h","t","t","p",":","/","/","w","e","b","s","d","r",".","e","x","a","m","p","l","e",".","c","o","m",":","8","9","0","1">>

\* CrawlerService.normalizeUrl, on the characters of the URL
normalizeUrl_ProtocolKept(url) == StripTrailingSlash(url)
normalizeUrl(url) ==
    StripTrailingSlash(
        IF /\ ~StartsWith(url, <<"h","t","t","p",":","/","/">>)
           /\ ~StartsWith(url, <<"h","t","t","p","s",":","/","/">>)
        THEN <<"h","t","t","p",":","/","/">> \o url
        ELSE url)

\* --------------------------------------- a service function called on its own
MaxBodyLen == 11
MaxBins == 3

Job(fn, url, data, minHz, maxHz, bins, tape) ==
    [fn |-> fn, url |-> url, data |-> data, minHz |-> minHz, maxHz |-> maxHz,
     bins |-> bins, tape |-> tape, lat |-> 0, lon |-> 0, freqs |-> <<>>, hour |-> 0]
NoTape == [seed |-> 0, stride |-> 0]
NoJob == Job("none", <<>>, <<>>, 0, 0, 0, NoTape)

Made(adapter, line, magnitudes) ==
    [done |-> TRUE, adapter |-> adapter, line |-> line, magnitudes |-> magnitudes,
     rings |-> <<>>, text |-> <<>>, twice |-> FALSE, again |-> <<>>]
NotMade == [Made("none", NoLine, <<>>) EXCEPT !.done = FALSE]

\* the URLs an adapter may be asked about
Schemes == { <<"h","t","t","p",":","/","/">>, <<"h","t","t","p","s",":","/","/">> }
Hosts == { <<"x",".","k","i","w","i","s","d","r",".","e","x","a","m","p","l","e">>,
           <<"w","e","b","s","d","r",".","e","x","a","m","p","l","e">>,
           <<"s","d","r",".","e","x","a","m","p","l","e">>,
           <<"w","e","b","s","d","r",".","k","i","w","i","s","d","r",".",
             "e","x","a","m","p","l","e">> }
Ports == { <<>>, <<":","8","0">>, <<":","8","0","7","3">>, <<":","8","9","0","1">> }
Paths == { <<>>, <<"/">> }
TestUrls == {s \o h \o p \o q : s \in Schemes, h \in Hosts, p \in Ports, q \in Paths}

\* the bodies a station may send: len bytes that start at first and go up by step
ByteArray(first, step, len) == [i \in 1..len |-> (first + (i - 1) * step) % 256]
Bodies ==
    {ByteArray(first, step, len) :
        first \in 0..255, step \in {1, 64},
        len \in (MIN_WATERFALL_DATA_LENGTH - 1)..MaxBodyLen}

Tapes == {[seed |-> s, stride |-> d] : s \in {0, 701, 985, 999}, d \in {0, 3}}
Windows == { <<DEFAULT_MIN_HZ, DEFAULT_MAX_HZ>>, <<7073000, 7075000>> }

\* the frequencies, positions and UTC hours rings may be asked for
MaxFreqs == 2
RingFreqs == {500000, 1800000, 3500000, 7000000, 14000000, 21000000, 29999999,
              30000000, 144000000, 1296000000}
RingHours == {0, 5, 6, 12, 18, 19}
RingCentres == { <<52, 7>>, <<-34, 151>> }
RECURSIVE SeqsUpTo(_, _)
SeqsUpTo(S, n) ==
    IF n = 0 THEN {<<>>}
    ELSE SeqsUpTo(S, n - 1)
            \cup {Append(s, x) : s \in {q \in SeqsUpTo(S, n - 1) : Len(q) = n - 1}, x \in S}

\* the URLs the crawler may be given
RawPrefixes == Schemes \cup { <<>>, <<"h","t","t","p",":","/">>, <<"f","t","p",":","/","/">> }
RawHosts == { <<>>, <<"w","e","b","s","d","r",".","e","x","a","m","p","l","e",".",
                      "c","o","m",":","8","9","0","1">>, <<"a","/","b">> }
RawTails == { <<>>, <<"/">>, <<"/","/">> }
RawUrls == {p \o h \o s : p \in RawPrefixes, h \in RawHosts, s \in RawTails}

Jobs ==
    {[NoJob EXCEPT !.fn = "getRingsForStation", !.lat = c[1], !.lon = c[2],
                   !.freqs = f, !.hour = h]
        : c \in RingCentres, f \in SeqsUpTo(RingFreqs, MaxFreqs), h \in RingHours}
    \cup {Job("normalizeUrl", u, <<>>, 0, 0, 0, NoTape) : u \in RawUrls}
    \cup {Job("getAdapter", u, <<>>, 0, 0, 0, NoTape) : u \in TestUrls}
    \cup {Job("fetchWaterfallData", <<>>, b, DEFAULT_MIN_HZ, DEFAULT_MAX_HZ, 0, NoTape)
            : b \in Bodies}
    \cup {Job("generateSimulatedWaterfallLine", <<>>, <<>>, w[1], w[2], n, t)
            : w \in Windows, n \in 1..MaxBins, t \in Tapes}

VARIABLES
    net,            \* the profile of the network (see ResponseDelays)
    state,          \* "Idle", "Streaming" or "Closed"
    params,         \* stationId, freqMin, freqMax, useReal, attemptRealData
    tickTimer,      \* ms until interval(33) emits again, Off when no timer runs
    tickNo,         \* the number of the last tick of the interval
    inner,          \* ticks whose inner observable is subscribed
    emitted,        \* the 'waterfall' events sent to the client, in order
    streamError,    \* an error reached the outer observable
    discarded,      \* results that arrived with their inner observable unsubscribed
    calls,          \* service calls in flight
    done,           \* service calls that returned to a direct caller
    nextId,         \* id of the next direct service call
    waterfallHeaderCache,  \* station URL -> cached header, or NoHeader
    accepted,       \* how many of the emitted events the transport has taken
    job,            \* the arguments of a service function called on its own
    made,           \* what that function returned
    hook,           \* one instance of useWaterfallStream in the browser
    queue,          \* lineQueueRef of the waterfall view, and what it drew
    store,          \* the zustand store of the browser: selection, view range, zoom
    mapView,        \* MapView: the station clicks in flight and the rings it shows
    crawl           \* one run of CrawlerService.crawlWebsdrOrg and the station table

vars == <<net, state, params, tickTimer, tickNo, inner, emitted, streamError,
          discarded, calls, done, nextId, waterfallHeaderCache, accepted, job, made, hook, queue,
          store, mapView, crawl>>

\* the store, the map and the crawler, which the parts above never touch
others == <<store, mapView, crawl>>

\* the browser side: the stream hook and the line queue of the waterfall view
front == <<hook, queue, others>>

\* the variables that no action of the session or of a service call touches
aside == <<job, made, front>>

sessionVars == <<state, params, tickTimer, tickNo, inner, emitted, streamError, discarded>>

NoParams == [stationId |-> "nosuch", freqMin |-> 0, freqMax |-> 0,
             useReal |-> "undefined", attemptRealData |-> FALSE]

\* ------------------------------------------- the hook useWaterfallStream
\* how often the component may re-render with new props or call reconnect
MaxRenders == 2

\* the delay of the retry timer of onerror
RetryDelay == 3000

NoStation == "null"
NoSource == 0

\* the hook before its component mounts: the props of the current render,
\* eventSourceRef, the EventSources that are not closed (each with the station
\* of the connect that made it), the pending retry timers in the order they
\* were set (each with the enabled and stationId its closure captured), the
\* three states, the server, and what has happened so far
NewHook ==
    [phase |-> "new", stationId |-> NoStation, enabled |-> FALSE,
     ref |-> NoSource, open |-> {}, timers |-> <<>>,
     isConnected |-> FALSE, isConnecting |-> FALSE, error |-> "null",
     server |-> "up", renders |-> 0,
     last |-> "none", replaced |-> FALSE, failed |-> FALSE, failedAgain |-> FALSE]

\* ------------------------------------------- the line queue of the view
\* the length handleWaterfallLine keeps the queue to
QueueLimit == 100

\* how many lines arrive at most
MaxLines == 102

\* lines carry the number of their arrival; drawn is the last line drawn
NewQueue ==
    [lines |-> <<>>, received |-> 0, drawn |-> 0, useStreaming |-> TRUE,
     last |-> "none"]

\* ------------------------------------------------------- the app store
NoRange == [isNull |-> TRUE, minHz |-> 0, maxHz |-> 0]
Range(minHz, maxHz) == [isNull |-> FALSE, minHz |-> minHz, maxHz |-> maxHz]

NoFrequency == [isNull |-> TRUE, hz |-> 0]
Frequency(hz) == [isNull |-> FALSE, hz |-> hz]

\* zoomLevel is kept as the fraction num / den in lowest terms
Zoom(num, den) == [num |-> num, den |-> den]

\* the store as create() leaves it
NewStore ==
    [selectedStationId |-> "null", fullFrequencyRange |-> NoRange,
     frequencyViewRange |-> NoRange, zoomLevel |-> Zoom(1, 1),
     selectedFrequencyHz |-> NoFrequency]

\* ----------------------------------------------------------- the map view
\* how many stations the user clicks
MaxClicks == 2

\* MapView before any click: the calls of handleStationClick in the order of
\* the clicks, and the station whose rings propagationRings holds
NewMapView == [clicks |-> <<>>, propagationRings |-> "none"]

\* ------------------------------------------------------ one crawler run
\* the crawl before it starts, with an empty station table
NewResult ==
    [success |-> FALSE, stationsProcessed |-> 0, stationsFromWebsdr |-> 0,
     stationsFromSeed |-> 0, errors |-> 0]

NewCrawl ==
    [pc |-> "idle", crawls |-> 0, fetched |-> "no", webStations |-> <<>>,
     allStations |-> <<>>, next |-> 1, table |-> {}, result |-> NewResult]

InitOf(profile, j) ==
    /\ net = profile
    /\ state = "Idle"
    /\ params = NoParams
    /\ tickTimer = Off
    /\ tickNo = 0
    /\ inner = {}
    /\ emitted = <<>>
    /\ streamError = FALSE
    /\ discarded = {}
    /\ calls = {}
    /\ done = {}
    /\ nextId = 1
    /\ waterfallHeaderCache = [u \in Urls |-> NoHeader]
    /\ accepted = 0
    /\ job = j
    /\ made = NotMade
    /\ hook = NewHook
    /\ queue = NewQueue
    /\ store = NewStore
    /\ mapView = NewMapView
    /\ crawl = NewCrawl

InitWith(profile) == InitOf(profile, NoJob)

Init == InitWith("session")

\* ------------------------------------------------------------ service calls
\* A call of getWaterfallLine, fetchWaterfallHeader or checkStationStatus in
\* flight.  wait: ms until the awaited answer (station record, response,
\* body) arrives; abort: ms left on the AbortController timer, Off when no
\* timer is armed; elapsed: ms since fetch() was called.  tick is the tick
\* that made the call, 0 for a direct caller.  History: age, ms since the
\* call began; seenAge, the age of the cache entry it found (Off: none);
\* after, the direct calls that had returned when it began.
\* The request fetch() sends: fetchWaterfallHeader GETs <url>/~~waterfallheader,
\* fetchWaterfallData GETs <url>/~~waterfall?lo=<kHz>&hi=<kHz>&w=512, and
\* checkStationStatus sends HEAD to the station URL.
Request(method, url, lo, hi, w) ==
    [method |-> method, url |-> url, lo |-> lo, hi |-> hi, w |-> w]
NoRequest == Request("none", <<>>, 0, 0, 0)

RequestOf(op, stationUrl, minHz, maxHz) ==
    IF op = "header"
    THEN Request("GET", StripTrailingSlash(Chars(stationUrl))
                          \o <<"/","~","~","w","a","t","e","r","f","a","l","l",
                                "h","e","a","d","e","r">>, 0, 0, 0)
    ELSE IF op = "line"
    THEN Request("GET", StripTrailingSlash(Chars(stationUrl))
                          \o <<"/","~","~","w","a","t","e","r","f","a","l","l">>,
                 minHz \div 1000, (maxHz + 999) \div 1000, 512)
    ELSE Request("HEAD", Chars(stationUrl), 0, 0, 0)

NewCall(id, op, tick, stationId, url, minHz, maxHz, bins, phase, wait, abort, seenAge) ==
    [id |-> id, op |-> op, tick |-> tick, stationId |-> stationId, url |-> url,
     minHz |-> minHz, maxHz |-> maxHz, bins |-> bins,
     phase |-> phase, wait |-> wait, abort |-> abort, elapsed |-> 0,
     age |-> 0, seenAge |-> seenAge, after |-> {r.id : r \in done}, fact |-> NoFact,
     request |-> NoRequest]

NoStatus == [online |-> FALSE, latencyMs |-> Off, error |-> "none"]

\* What a call returns: rejected is a thrown error (a rejected promise).
Returned(rejected, line, header, status) ==
    [rejected |-> rejected, line |-> line, header |-> header, status |-> status,
     info |-> NoInfo]

LineResult(line) == Returned(FALSE, line, NoHeader, NoStatus)
HeaderResult(header) == Returned(FALSE, NoLine, header, NoStatus)
StatusResult(online, latencyMs, error) ==
    Returned(FALSE, NoLine, NoHeader,
             [online |-> online, latencyMs |-> latencyMs, error |-> error])
Thrown == Returned(TRUE, NoLine, NoHeader, NoStatus)
InfoResult(info) == [Returned(FALSE, NoLine, NoHeader, NoStatus) EXCEPT !.info = info]

\* response.ok || response.status === 405
isOnline_OkOnly(answer) == answer = "ok"
isOnline(answer) == answer = "ok" \/ answer = "status405"

\* getWaterfallLine, after the real fetch gave nothing: the simulated line
Fallback(c) ==
    LineResult(generateSimulatedWaterfallLine(c.tick, c.fact, c.minHz, c.maxHz, c.bins))

\* ------------------------------------------------------- the session's pipe
\* switchMap: the inner observable of a new tick replaces the previous one
switchMap_Merge(prev, t) == prev \cup {t}
switchMap(prev, t) == {t}

\* from(promise).pipe(catchError(() => of(generateSimulated...)))
catchError_Rethrow(c, r) ==
    IF r.rejected THEN [kind |-> "error", line |-> NoLine]
    ELSE [kind |-> "next", line |-> r.line]

catchError(c, r) ==
    IF r.rejected
    THEN [kind |-> "next",
          line |-> generateSimulatedWaterfallLine(c.tick, c.fact, params.freqMin,
                                                  params.freqMax, numBins)]
    ELSE [kind |-> "next", line |-> r.line]

Discard(c) == [tick |-> c.tick, state |-> state, lines |-> Len(emitted)]

\* The promise of a tick settles: its inner observable, if still subscribed,
\* hands the line to map() and the transport, then completes.
ToStream(c, r) ==
    LET ev == catchError(c, r) IN
    /\ UNCHANGED <<params, tickNo>>
    /\ IF c.tick \in inner
       THEN IF ev.kind = "next"
            THEN /\ emitted' = Append(emitted, ev.line)
                 /\ inner' = inner \ {c.tick}
                 /\ UNCHANGED <<state, tickTimer, streamError, discarded>>
            ELSE /\ streamError' = TRUE
                 /\ state' = "Closed"
                 /\ tickTimer' = Off
                 /\ inner' = {}
                 /\ UNCHANGED <<emitted, discarded>>
       ELSE /\ discarded' = discarded \cup {Discard(c)}
            /\ UNCHANGED <<state, tickTimer, inner, emitted, streamError>>

\* The call returns to a direct caller.  History: back, ms since it returned;
\* cacheSame, whether it left the cache as it was.
ToCaller(c, r) ==
    done' = done \cup {[id |-> c.id, op |-> c.op, url |-> c.url, stationId |-> c.stationId,
                        age |-> c.age, back |-> 0, elapsed |-> c.elapsed,
                        seenAge |-> c.seenAge,
                        after |-> c.after, fact |-> c.fact,
                        hit |-> (c.phase = "cache"),
                        network |-> (c.phase \in {"fetch", "body"}),
                        result |-> r,
                        cacheSame |-> (waterfallHeaderCache' = waterfallHeaderCache)]}

\* waterfallHeaderCache' is set by the action before it settles the call
Settle(c, r) ==
    /\ calls' = (calls \ {x \in calls : x.id = c.id /\ x.tick = c.tick})
    /\ IF c.tick > 0
       THEN ToStream(c, r) /\ UNCHANGED done
       ELSE ToCaller(c, r) /\ UNCHANGED sessionVars

Continue(c, d) ==
    /\ calls' = (calls \ {c}) \cup {d}
    /\ UNCHANGED <<sessionVars, done>>

With(c, what, len, text) == [c EXCEPT !.fact = Fact(what, len, text)]

\* ------------------------------------------------------------- the session
\* The SSE route is subscribed: interval(33) starts.
Open(stationId, minHz, maxHz, useReal) ==
    /\ state = "Idle"
    /\ state' = "Streaming"
    /\ params' = [stationId |-> stationId, freqMin |-> freqMinOf(minHz),
                  freqMax |-> freqMaxOf(maxHz), useReal |-> useReal,
                  attemptRealData |-> attemptRealDataOf(useReal)]
    /\ tickTimer' = TICK_INTERVAL_MS
    /\ UNCHANGED <<net, accepted, aside,tickNo, inner, emitted, streamError, discarded, calls, done,
                   nextId, waterfallHeaderCache>>

\* interval(33) emits tick n: switchMap subscribes the inner observable of n.
TickBody(n) ==
    /\ state = "Streaming"
    /\ tickTimer = 0
    /\ tickNo' = n
    /\ tickTimer' = TICK_INTERVAL_MS
    /\ IF params.attemptRealData
       THEN /\ \E w \in LookupDelays :
                 calls' = calls \cup
                     {NewCall(0, "line", n, params.stationId, NoUrl, params.freqMin,
                              params.freqMax, numBins, "lookup", w, Off, Off)}
            /\ inner' = switchMap(inner, n)
            /\ UNCHANGED emitted
       ELSE /\ emitted' = Append(emitted,
                    generateSimulatedWaterfallLine(n, NoFact, params.freqMin,
                                                   params.freqMax, numBins))
            /\ inner' = switchMap(inner, n) \ {n}
            /\ UNCHANGED calls
    /\ UNCHANGED <<net, accepted, aside,state, params, streamError, discarded, done, nextId,
                   waterfallHeaderCache>>

Tick == tickNo < MaxTicks /\ TickBody(tickNo + 1)

Close_KeepsInner ==
    /\ state = "Streaming"
    /\ state' = "Closed"
    /\ tickTimer' = Off
    /\ UNCHANGED <<net, accepted, aside,params, tickNo, inner, emitted, streamError, discarded, calls,
                   done, nextId, waterfallHeaderCache>>

\* The client disconnects: the subscription is torn down, which clears the
\* interval and unsubscribes the inner observable.  Promises keep running.
Close ==
    /\ state = "Streaming"
    /\ state' = "Closed"
    /\ tickTimer' = Off
    /\ inner' = {}
    /\ UNCHANGED <<net, accepted, aside,params, tickNo, emitted, streamError, discarded, calls, done,
                   nextId, waterfallHeaderCache>>

\* ---------------------------------------------------- the service methods
CacheFresh_Inclusive(cached) == cached # NoHeader /\ cached.age <= HEADER_CACHE_TTL_MS
CacheFresh(cached) == cached # NoHeader /\ cached.age < HEADER_CACHE_TTL_MS

CachePut_Dropped(cache, stationUrl, header) == cache
CachePut_Mixed(cache, stationUrl, header) ==
    LET old == cache[stationUrl] IN
    [cache EXCEPT ![stationUrl] =
        IF old = NoHeader THEN header ELSE [header EXCEPT !.bands = old.bands]]
CachePut(cache, stationUrl, header) == [cache EXCEPT ![stationUrl] = header]

\* fetchWaterfallHeader(stationUrl): a fresh cache entry is returned at
\* once, otherwise the GET of the header starts with its 5 s abort timer.
FetchWaterfallHeader(stationUrl) ==
    LET cached == waterfallHeaderCache[stationUrl] IN
    /\ nextId' = nextId + 1
    /\ UNCHANGED <<net, accepted, aside,waterfallHeaderCache>>
    /\ IF CacheFresh(cached)
       THEN /\ ToCaller(NewCall(nextId, "header", 0, "none", stationUrl, 0, 0, 0,
                                "cache", 0, Off, cached.age),
                        HeaderResult(cached))
            /\ UNCHANGED <<sessionVars, calls>>
       ELSE /\ \E w \in ResponseDelays(net) :
                 calls' = calls \cup
                    {[NewCall(nextId, "header", 0, "none", stationUrl, 0, 0, 0,
                              "fetch", w, HEADER_TIMEOUT_MS, cached.age)
                        EXCEPT !.request = RequestOf("header", stationUrl, 0, 0)]}
            /\ UNCHANGED <<sessionVars, done>>

\* checkStationStatus(stationId) and a direct getWaterfallLine(...) begin
\* with the lookup of the station record.
CheckStationStatus(stationId) ==
    /\ nextId' = nextId + 1
    /\ \E w \in LookupDelays :
         calls' = calls \cup {NewCall(nextId, "status", 0, stationId, NoUrl, 0, 0, 0,
                                      "lookup", w, Off, Off)}
    /\ UNCHANGED <<net, accepted, aside,sessionVars, done, waterfallHeaderCache>>

GetWaterfallLine(stationId, minHz, maxHz, bins) ==
    /\ nextId' = nextId + 1
    /\ \E w \in LookupDelays :
         calls' = calls \cup {NewCall(nextId, "line", 0, stationId, NoUrl, minHz, maxHz,
                                      bins, "lookup", w, Off, Off)}
    /\ UNCHANGED <<net, accepted, aside,sessionVars, done, waterfallHeaderCache>>

\* getWaterfallStreamInfo(stationId) begins with the same lookup.
GetWaterfallStreamInfo(stationId) ==
    /\ nextId' = nextId + 1
    /\ \E w \in LookupDelays :
         calls' = calls \cup {NewCall(nextId, "info", 0, stationId, NoUrl, 0, 0, 0,
                                      "lookup", w, Off, Off)}
    /\ UNCHANGED <<net, accepted, aside, sessionVars, done, waterfallHeaderCache>>

TimeoutOf(op) == IF op = "line" THEN DATA_TIMEOUT_MS
                 ELSE IF op = "header" THEN HEADER_TIMEOUT_MS
                 ELSE STATUS_TIMEOUT_MS

\* What each method returns when its request failed (catch, !response.ok).
Failed(c) ==
    IF c.op = "line" THEN Fallback(c)
    ELSE IF c.op = "header" THEN HeaderResult(NoHeader)
    ELSE StatusResult(FALSE, Off, c.fact.what)

\* prisma.station.findUnique answers, or throws.
LookupReturns(c) ==
    /\ c.phase = "lookup"
    /\ c.wait = 0
    /\ UNCHANGED <<net, accepted, aside,nextId, waterfallHeaderCache>>
    /\ \E threw \in LookupThrows(net) :
         LET url == FindUnique(c.stationId) IN
         IF threw
         THEN Settle(With(c, "lookupThrew", 0, <<>>), Thrown)
         ELSE IF url = NoUrl
         THEN IF c.op = "line"
              THEN Settle(With(c, "noStation", 0, <<>>),
                          Fallback(With(c, "noStation", 0, <<>>)))
              ELSE IF c.op = "info"
              THEN Settle(With(c, "noStation", 0, <<>>), InfoResult(NoInfo))
              ELSE Settle(With(c, "noStation", 0, <<>>),
                          StatusResult(FALSE, Off, "Station not found"))
         ELSE IF c.op = "info"
         THEN Settle(With(c, "station", 0, <<>>), InfoResult(StreamInfo(c.stationId, url)))
         ELSE \E w \in ResponseDelays(net) :
                 Continue(c, [c EXCEPT !.url = url, !.phase = "fetch", !.wait = w,
                                       !.abort = TimeoutOf(c.op),
                                       !.request = RequestOf(c.op, url, c.minHz,
                                                             c.maxHz)])

\* The AbortController timer goes off while fetch() is pending.
AbortFires(c) ==
    /\ c.phase = "fetch"
    /\ c.abort = 0
    /\ UNCHANGED <<net, accepted, aside,nextId, waterfallHeaderCache>>
    /\ Settle(With(c, "aborted", 0, <<>>), Failed(With(c, "aborted", 0, <<>>)))

\* fetch() settles: a response with its status, or a network error.  A
\* response clears the abort timer.
FetchResponds(c) ==
    /\ c.phase = "fetch"
    /\ c.wait = 0
    /\ UNCHANGED <<net, accepted, aside,nextId, waterfallHeaderCache>>
    /\ \E answer \in Answers(c.op) :
         LET a == With(c, answer, 0, <<>>) IN
         IF answer = "networkError"
         THEN Settle(a, Failed(a))
         ELSE IF c.op = "status"
         THEN Settle(a, StatusResult(isOnline(answer), c.elapsed, "none"))
         ELSE IF answer # "ok"
         THEN Settle(a, Failed(a))
         ELSE \E w \in BodyDelays(net) :
                 Continue(c, [c EXCEPT !.phase = "body", !.wait = w, !.abort = Off])

\* response.arrayBuffer() / response.text() settles: the body, or an error
\* while reading it.  fetchWaterfallData decodes the bytes; fetchWaterfallHeader
\* parses the text and stores the header in the cache.
BodyArrives(c) ==
    /\ c.phase = "body"
    /\ c.wait = 0
    /\ UNCHANGED <<net, accepted, aside,nextId>>
    /\ \/ /\ UNCHANGED waterfallHeaderCache
          /\ Settle(With(c, "bodyError", 0, <<>>), Failed(With(c, "bodyError", 0, <<>>)))
       \/ /\ c.op = "line"
          /\ UNCHANGED waterfallHeaderCache
          /\ \E len \in BodyLengths :
               LET a == With(c, "body", len, <<>>) IN
               IF TooShort(len)
               THEN Settle(a, Failed(a))
               ELSE Settle(a, LineResult(RealLine(c.tick, a.fact, c.minHz, c.maxHz, len)))
       \/ /\ c.op = "header"
          /\ \E text \in Texts :
               LET a == With(c, "body", 0, text)
                   header == parseWaterfallHeader(text, c.id) IN
               /\ waterfallHeaderCache' =
                     IF header # NoHeader
                     THEN CachePut(waterfallHeaderCache, c.url, header)
                     ELSE waterfallHeaderCache
               /\ Settle(a, HeaderResult(header))

\* ------------------------------------------------------------------- time
Pending ==
    (IF tickTimer # Off THEN {tickTimer} ELSE {})
    \cup {c.wait : c \in calls}
    \cup {c.abort : c \in {x \in calls : x.abort # Off}}

NextEvent == CHOOSE d \in Pending : \A e \in Pending : d <= e

AgeCap == HEADER_CACHE_TTL_MS + 1
Older(a, d) == Min2(a + d, AgeCap)

Elapse(d) ==
    /\ tickTimer' = IF tickTimer = Off THEN Off ELSE tickTimer - d
    /\ calls' = {[c EXCEPT !.wait = c.wait - d,
                           !.abort = IF c.abort = Off THEN Off ELSE c.abort - d,
                           !.elapsed = IF c.phase = "lookup" THEN 0 ELSE c.elapsed + d,
                           !.age = Older(c.age, d)] : c \in calls}
    /\ done' = {[r EXCEPT !.age = Older(r.age, d), !.back = Older(r.back, d)] : r \in done}
    /\ waterfallHeaderCache' =
          [u \in Urls |-> IF waterfallHeaderCache[u] = NoHeader THEN NoHeader
                          ELSE [waterfallHeaderCache[u] EXCEPT
                                  !.age = Older(waterfallHeaderCache[u].age, d)]]
    /\ UNCHANGED <<net, accepted, aside,state, params, tickNo, inner, emitted, streamError, discarded,
                   nextId>>

\* Time passes until the nearest timer or network event is due.
Advance ==
    /\ Pending # {}
    /\ NextEvent > 0
    /\ Elapse(NextEvent)

\* Nothing is pending: any amount of time may pass.
IdleAdvance ==
    /\ Pending = {}
    /\ \E d \in IdleSteps : Elapse(d)

\* --------------------------------------------------------- specifications
OpenSession ==
    \E id \in SessionStations, w \in QueryWindows, u \in UseRealValues :
        Open(id, w[1], w[2], u)
Lookup == \E c \in calls : LookupReturns(c)
Abort == \E c \in calls : AbortFires(c)
Respond == \E c \in calls : FetchResponds(c)
Body == \E c \in calls : BodyArrives(c)

\* The streaming session of one client.
Next ==
    \/ OpenSession
    \/ Tick
    \/ Close
    \/ Lookup
    \/ Abort
    \/ Respond
    \/ Body
    \/ Advance

Spec == Init /\ [][Next]_vars

\* The header route: fetchWaterfallHeader and its cache.
HeaderRoute == nextId <= MaxHeaderCalls /\ \E u \in Urls : FetchWaterfallHeader(u)

HeaderNext ==
    \/ HeaderRoute
    \/ Abort
    \/ Respond
    \/ Body
    \/ Advance
    \/ IdleAdvance

HeaderSpec == InitWith("header") /\ [][HeaderNext]_vars

\* The three outbound calls of the service, each made by a direct caller.
CallHeader == nextId <= MaxCalls /\ \E u \in Urls : FetchWaterfallHeader(u)
CallStatus == nextId <= MaxCalls /\ \E id \in StationIds : CheckStationStatus(id)
CallLine ==
    nextId <= MaxCalls /\ \E id \in StationIds :
        GetWaterfallLine(id, DEFAULT_MIN_HZ, DEFAULT_MAX_HZ, numBins)

CallInfo == nextId <= MaxCalls /\ \E id \in InfoStationIds : GetWaterfallStreamInfo(id)

FetcherNext ==
    \/ CallHeader
    \/ CallStatus
    \/ CallLine
    \/ CallInfo
    \/ Lookup
    \/ Abort
    \/ Respond
    \/ Body
    \/ Advance

FetcherSpec == InitWith("direct") /\ [][FetcherNext]_vars

\* The session and its transport: the SSE response takes the events the
\* observable has emitted, one at a time, whenever the client lets it.
Accept ==
    /\ accepted < Len(emitted)
    /\ accepted' = accepted + 1
    /\ UNCHANGED <<net, aside, sessionVars, calls, done, nextId, waterfallHeaderCache>>

TransportNext ==
    \/ OpenSession
    \/ Tick
    \/ Close
    \/ Lookup
    \/ Abort
    \/ Respond
    \/ Body
    \/ Advance
    \/ Accept

TransportSpec == Init /\ [][TransportNext]_vars

\* A service function applied to its arguments.
GetAdapter ==
    /\ job.fn = "getAdapter"
    /\ ~made.done
    /\ made' = Made(getAdapter(job.url), NoLine, <<>>)
    /\ UNCHANGED <<front, net, accepted, job, sessionVars, calls, done, nextId,
                   waterfallHeaderCache>>

\* fetchWaterfallData from the point where the body has been read
DecodeBody ==
    /\ job.fn = "fetchWaterfallData"
    /\ ~made.done
    /\ made' = IF TooShort(Len(job.data))
               THEN Made("none", NoLine, <<>>)
               ELSE LET magnitudes == DecodedMagnitudes(job.data) IN
                    Made("none",
                         RealLine(0, Fact("body", Len(job.data), <<>>), job.minHz,
                                  job.maxHz, Len(magnitudes)),
                         magnitudes)
    /\ UNCHANGED <<front, net, accepted, job, sessionVars, calls, done, nextId,
                   waterfallHeaderCache>>

Generate ==
    /\ job.fn = "generateSimulatedWaterfallLine"
    /\ ~made.done
    /\ made' = Made("none",
                    generateSimulatedWaterfallLine(0, NoFact, job.minHz, job.maxHz,
                                                   job.bins),
                    GeneratedMagnitudes(job.minHz, job.maxHz, job.bins, job.tape))
    /\ UNCHANGED <<front, net, accepted, job, sessionVars, calls, done, nextId,
                   waterfallHeaderCache>>

GetRingsForStation ==
    /\ job.fn = "getRingsForStation"
    /\ ~made.done
    /\ made' = [Made("none", NoLine, <<>>) EXCEPT
                    !.rings = getRingsForStation(job.lat, job.lon, job.freqs, job.hour)]
    /\ UNCHANGED <<front, net, accepted, job, sessionVars, calls, done, nextId,
                   waterfallHeaderCache>>

\* normalizeUrl applied to a raw URL, and then once more to its own result
NormalizeUrl ==
    /\ job.fn = "normalizeUrl"
    /\ ~made.done
    /\ made' = [Made("none", NoLine, <<>>) EXCEPT !.text = normalizeUrl(job.url)]
    /\ UNCHANGED <<front, net, accepted, job, sessionVars, calls, done, nextId,
                   waterfallHeaderCache>>

NormalizeAgain ==
    /\ job.fn = "normalizeUrl"
    /\ made.done /\ ~made.twice
    /\ made' = [made EXCEPT !.twice = TRUE, !.again = normalizeUrl(made.text)]
    /\ UNCHANGED <<front, net, accepted, job, sessionVars, calls, done, nextId,
                   waterfallHeaderCache>>

FunctionNext ==
    \/ GetAdapter
    \/ DecodeBody
    \/ Generate
    \/ GetRingsForStation
    \/ NormalizeUrl
    \/ NormalizeAgain

FunctionInit == \E j \in Jobs : InitOf("direct", j)

FunctionSpec == FunctionInit /\ [][FunctionNext]_vars

\* The session of a client of a slow station, with the scheduling of the
\* event loop: due timers fire, time passes, pending answers arrive.  Ticks
\* are numbered modulo LiveWrap; a number is reused only after the call of
\* its previous holder has settled.
LiveTick == TickBody((tickNo % LiveWrap) + 1)
LiveOpen ==
    \E w \in QueryWindows, u \in {"undefined", "true"} : Open("s1", w[1], w[2], u)

LiveNext ==
    \/ LiveOpen
    \/ LiveTick
    \/ Close
    \/ Lookup
    \/ Respond
    \/ Body
    \/ Advance

LiveSpec ==
    /\ InitWith("slow")
    /\ [][LiveNext]_vars
    /\ WF_vars(LiveTick)
    /\ WF_vars(Lookup)
    /\ WF_vars(Respond)
    /\ WF_vars(Body)
    /\ WF_vars(Advance)

\* ------------------------------------------------------------- properties
LinesOf(t) == Cardinality({i \in 1..Len(emitted) : emitted[i].tick = t})
Settled(t) == \A c \in calls : c.tick # t

\* C1: while the session is Streaming, every tick yields exactly one emitted
\* line: never more than one, and one as soon as its line has been produced.
C1_EveryTickOneLine ==
    state = "Streaming" =>
        \A t \in 1..tickNo : LinesOf(t) <= 1 /\ (Settled(t) => LinesOf(t) = 1)

\* C2: a Streaming session with useReal=true on a slow station eventually
\* emits a line, unless the client closes it first.
C2_LineEventuallyEmitted ==
    [](state = "Streaming" /\ params.attemptRealData
         => <>(emitted # <<>> \/ state = "Closed"))

\* the real fetch of the tick failed
FetchFailed(f) ==
    \/ f.what \in {"lookupThrew", "noStation", "aborted", "networkError",
                   "status405", "status500", "bodyError"}
    \/ f.what = "body" /\ f.len < MIN_WATERFALL_DATA_LENGTH

Generated(line) ==
    /\ line.source = "simulated"
    /\ line.freqStartHz = params.freqMin
    /\ line.stepNum = params.freqMax - params.freqMin
    /\ line.stepDen = numBins
    /\ line.n = numBins

\* C3: with useReal other than 'false', the line emitted for a tick whose
\* real fetch failed is the generator's line for the session's window and
\* bin count; no error reaches the stream and the interval keeps running.
C3_FailureFallsBack ==
    /\ ~streamError
    /\ state = "Streaming" => tickTimer # Off
    /\ \A i \in 1..Len(emitted) :
         params.useReal # "false" /\ FetchFailed(emitted[i].fact) => Generated(emitted[i])

C3_Witness ==
    /\ state = "Streaming"
    /\ \E i, j \in 1..Len(emitted) :
         /\ emitted[i].fact.what = "lookupThrew"
         /\ emitted[j].fact.what = "aborted" \/ emitted[j].fact.what = "status500"
         /\ emitted[j].tick > emitted[i].tick

\* C4: a session opened with useReal=false never calls getWaterfallLine: no
\* call is ever in flight, no result ever arrives, and every emitted line is
\* the generator's, made without any answer of the station.
C4_NoFetchWhenNotReal ==
    state # "Idle" /\ params.useReal = "false" =>
        /\ calls = {}
        /\ discarded = {}
        /\ \A i \in 1..Len(emitted) : Generated(emitted[i]) /\ emitted[i].fact = NoFact

C4_Witness == params.useReal = "false" /\ Len(emitted) = MaxTicks /\ state = "Closed"

\* C9: the session moves only Idle -> Streaming -> Closed; once Closed it
\* stays Closed, its timer is off, no tick fires and no line is emitted.
C9_ClosedIsTerminal ==
    [][ /\ state = "Closed" =>
             state' = "Closed" /\ emitted' = emitted /\ tickNo' = tickNo
                               /\ tickTimer' = Off
        /\ state' # state =>
             \/ state = "Idle" /\ state' = "Streaming"
             \/ state = "Streaming" /\ state' = "Closed" /\ tickTimer' = Off
      ]_vars

\* the fetch of the last tick completed after the client had gone
C9_Witness ==
    /\ state = "Closed"
    /\ \E d \in discarded : d.state = "Closed" /\ d.tick = tickNo

\* C10: the lines of a session are emitted in strictly increasing tick order.
C10_TickOrder ==
    \A i, j \in 1..Len(emitted) : i < j => emitted[i].tick < emitted[j].tick

\* the fetch of an earlier tick completed after a later tick's line went out
C10_Witness ==
    /\ Len(emitted) >= 2
    /\ \E d \in discarded : d.lines >= 1 /\ emitted[d.lines].tick > d.tick

\* ------------------------------------------ properties of the header cache
\* The calls of fetchWaterfallHeader so far, returned or in flight.
HeaderCalls ==
    {[id |-> r.id, url |-> r.url, age |-> r.age, back |-> r.back, seenAge |-> r.seenAge,
      after |-> r.after, returned |-> TRUE, network |-> r.network, hit |-> r.hit,
      header |-> r.result.header, fact |-> r.fact, cacheSame |-> r.cacheSame]
        : r \in {x \in done : x.op = "header"}}
    \cup
    {[id |-> c.id, url |-> c.url, age |-> c.age, back |-> 0, seenAge |-> c.seenAge,
      after |-> c.after, returned |-> FALSE, network |-> TRUE, hit |-> FALSE,
      header |-> NoHeader, fact |-> c.fact, cacheSame |-> TRUE]
        : c \in {x \in calls : x.op = "header"}}

\* C5: a call is served from the cache only if the entry it found is younger
\* than the TTL, and then gets the header some network call stored for that
\* URL; a call that finds an entry of age TTL or more goes to the network.
C5_FreshOnly ==
    \A x \in HeaderCalls :
        /\ x.hit =>
             /\ x.seenAge # Off /\ x.seenAge < HEADER_CACHE_TTL_MS
             /\ ~x.network
             /\ \E p \in HeaderCalls :
                    /\ p.returned /\ p.network /\ p.url = x.url /\ p.id = x.header.by
                    /\ p.header.bands = x.header.bands
                    /\ p.header.totalWidth = x.header.totalWidth
        /\ x.seenAge >= HEADER_CACHE_TTL_MS => x.network /\ ~x.hit

C5_Witness ==
    \E x \in HeaderCalls : x.hit /\ x.seenAge = HEADER_CACHE_TTL_MS - 1

\* b is the later call and began less than the TTL after a returned
Within(a, b) ==
    /\ a.id < b.id
    /\ a.returned => a.back < AgeCap /\ a.back - b.age < HEADER_CACHE_TTL_MS

\* C6 as stated: of two calls for one URL within the TTL window, the first
\* going to the network, the second makes no network call.
C6_SecondCallHits ==
    \A a, b \in HeaderCalls :
        a.url = b.url /\ a.network /\ Within(a, b) => ~b.network

\* C6 amended: of two calls for one URL, the first having fetched and
\* returned a header before the second begins, less than the TTL later, the
\* second is a cache hit and makes no network call.
C6_SecondCallHitsAfterSuccess ==
    \A a, b \in HeaderCalls :
        /\ a.url = b.url /\ a.network /\ Within(a, b)
        /\ a.returned /\ a.header # NoHeader /\ a.id \in b.after
        => ~b.network /\ b.hit

C6_Witness ==
    \E a, b \in HeaderCalls :
        /\ a.url = b.url /\ a.network /\ Within(a, b)
        /\ a.returned /\ a.header # NoHeader /\ a.id \in b.after
        /\ b.seenAge = HEADER_CACHE_TTL_MS - 1

\* fetchHeader failed: timeout, non-2xx status or unparsable body
HeaderFailed(f) ==
    \/ f.what \in {"aborted", "status500", "status405"}
    \/ f.what = "body" /\ Unparsable(f.text)

\* C7: a fetchHeader that fails by timeout, non-2xx status or unparsable body
\* returns no header and leaves the cache unchanged, and a call that begins
\* when only failed calls for its URL have returned goes to the network.
C7_FailureNotCached ==
    /\ \A x \in HeaderCalls :
         x.returned /\ HeaderFailed(x.fact) => x.header = NoHeader /\ x.cacheSame
    /\ \A b \in HeaderCalls :
         (\A p \in HeaderCalls : p.url = b.url /\ p.id \in b.after => HeaderFailed(p.fact))
            => b.network

\* C8: no outbound call outlasts its deadline: at every moment the time since
\* fetch() was called is at most 5 s (header), 3 s (data), 5 s (status probe).
C8_CallsBounded ==
    /\ \A c \in calls : c.phase \in {"fetch", "body"} => c.elapsed <= TimeoutOf(c.op)
    /\ \A r \in done : r.network => r.elapsed <= TimeoutOf(r.op)

\* ------------------------------------------- properties of the session open
\* C11: a session requested for a station id that is not in the station
\* records does not start: the state never becomes Streaming, no tick fires
\* and no line is emitted.
C11_UnknownStationNotStarted ==
    FindUnique(params.stationId) = NoUrl =>
        state # "Streaming" /\ tickNo = 0 /\ emitted = <<>>

\* C12: a line the transport has not accepted when the next tick fires makes
\* that tick skip its emission instead of queueing, so the lines produced
\* but not yet accepted never number more than one.
C12_UnacceptedBounded == Len(emitted) - accepted <= 1

\* C15: every line of a session has exactly n = 512 samples and a
\* freqStepHz of (maxHz - minHz) / n, whether decoded or generated.
C15_LineShape ==
    \A i \in 1..Len(emitted) :
        /\ emitted[i].n = numBins
        /\ emitted[i].stepNum * numBins
              = (params.freqMax - params.freqMin) * emitted[i].stepDen

\* ------------------------------------------------ properties of the adapters
\* C13: getAdapter returns the first of [Kiwi, Standard] whose canHandle
\* accepts the URL and none when neither does; a URL both accept goes to
\* Kiwi, and so does 'http://x.kiwisdr.example:80'.
C13_FirstAdapterWins ==
    made.done /\ job.fn = "getAdapter" =>
        LET kiwi == KiwiCanHandle(job.url)
            standard == StandardCanHandle(job.url) IN
        /\ kiwi => made.adapter = "KiwiSdrAdapter"
        /\ ~kiwi /\ standard => made.adapter = "StandardWebSdrAdapter"
        /\ ~kiwi /\ ~standard => made.adapter = NoAdapter
        /\ job.url = << "h","t","t","p",":","/","/","x",".","k","i","w","i","s","d","r",
                        ".","e","x","a","m","p","l","e",":","8","0" >>
             => made.adapter = "KiwiSdrAdapter"

C13_Witness ==
    /\ made.done /\ job.fn = "getAdapter"
    /\ KiwiCanHandle(job.url) /\ StandardCanHandle(job.url)
    /\ made.adapter = "KiwiSdrAdapter"

\* C14: getWaterfallStreamInfo makes no network request and starts no
\* session; it returns none exactly for an unknown station, and otherwise
\* type 'kiwisdr' / 'standard' exactly when getAdapter selects the Kiwi /
\* Standard adapter, and 'unknown' with the raw station URL exactly when no
\* adapter matches.
C14_InfoIsLookupOnly ==
    /\ \A c \in calls : c.op = "info" => c.phase = "lookup"
    /\ \A r \in done : r.op = "info" =>
         /\ ~r.network
         /\ state = "Idle" /\ tickTimer = Off
         /\ ~r.result.rejected =>
              LET info == r.result.info
                  url == FindUnique(r.stationId)
                  adapter == getAdapter(Chars(url)) IN
              /\ info = NoInfo <=> url = NoUrl
              /\ url # NoUrl =>
                   /\ info.type = "kiwisdr" <=> adapter = "KiwiSdrAdapter"
                   /\ info.type = "standard" <=> adapter = "StandardWebSdrAdapter"
                   /\ info.type = "unknown" <=> adapter = NoAdapter
                   /\ adapter = NoAdapter => info.url = Chars(url)

C14_Witness ==
    \E r \in done :
        /\ r.op = "info" /\ r.stationId = "s4"
        /\ r.result.info.type = "kiwisdr"
        /\ r.result.info.url =
              << "w","s",":","/","/","w","e","b","s","d","r",".","k","i","w","i","s","d","r",
                 ".","e","x","a","m","p","l","e","/","k","i","w","i","/",
                 "w","a","t","e","r","f","a","l","l" >>

\* ------------------------------------------------- properties of the samples
Decoded == made.done /\ job.fn = "fetchWaterfallData"
                     /\ Len(job.data) >= MIN_WATERFALL_DATA_LENGTH

\* C16: the decode of a body of at least 10 bytes has one sample per byte,
\* in the order of the bytes, sample i being clamp(10^((byte i - 128)/40)),
\* and every sample lies in [0, 1].
C16_DecodeKeepsLengthAndOrder ==
    Decoded =>
        /\ Len(made.magnitudes) = Len(job.data)
        /\ made.line.n = Len(job.data)
        /\ \A i \in 1..Len(job.data) :
             /\ made.magnitudes[i] = Pow10(Min2(job.data[i] - 128, 0))
             /\ InUnitInterval(made.magnitudes[i])

C16_Witness ==
    /\ Decoded
    /\ Len(job.data) = MIN_WATERFALL_DATA_LENGTH
    /\ made.magnitudes[1] # made.magnitudes[MIN_WATERFALL_DATA_LENGTH]

\* C17: every sample of every line the session can emit, decoded from a
\* body or generated, lies in [0, 1].
C17_SamplesInUnitInterval ==
    made.done => \A i \in 1..Len(made.magnitudes) : InUnitInterval(made.magnitudes[i])

\* a generated line with a bin whose signals add up to more than 1.0
C17_Witness ==
    /\ made.done /\ job.fn = "generateSimulatedWaterfallLine"
    /\ Len(made.magnitudes) = job.bins
    /\ \E i \in 1..Len(made.magnitudes) : IsOne(made.magnitudes[i])
    /\ \E i \in 1..Len(made.magnitudes) : ~IsOne(made.magnitudes[i])

\* 10^(12/40) < 2 < 10^(13/40): two magnitudes are within a factor of two
\* of each other when their exponents differ by at most 12 fortieths
AboutTenThousandth(s) ==
    s.form = "pow10" /\ Abs(s.v - (-4) * DB_RANGE) <= 12

\* 10^(-128/40) = 10^(-3.2) lies between 0.00063 and 0.00064
AboutSixTenThousandths(s) ==
    s = Pow10(-128) /\ 63 ^ 5 <= 10 ^ 9 /\ 10 ^ 9 < 64 ^ 5

DecodeShape(i) ==
    LET byte == job.data[i]
        s == made.magnitudes[i] IN
    /\ byte = 128 => IsOne(s)
    /\ byte > 128 => IsOne(s)
    /\ byte < 128 => Positive(s) /\ InUnitInterval(s) /\ ~IsOne(s)
    /\ \A j \in 1..Len(job.data) :
         byte <= job.data[j] => s.v <= made.magnitudes[j].v

\* C18 as stated: byte 128 decodes to exactly 1.0, bytes above it clamp to
\* 1.0, bytes below it give positive values below 1.0 that do not decrease
\* as the byte grows, and byte 0 gives approximately 0.0001.
C18_DecodeMapping ==
    Decoded =>
        \A i \in 1..Len(job.data) :
            /\ DecodeShape(i)
            /\ job.data[i] = 0 => AboutTenThousandth(made.magnitudes[i])

\* C18 amended: the same, with byte 0 giving 10^(-3.2), about 0.00063.
C18_DecodeMappingByteZero ==
    Decoded =>
        \A i \in 1..Len(job.data) :
            /\ DecodeShape(i)
            /\ job.data[i] = 0 => AboutSixTenThousandths(made.magnitudes[i])

C18_Witness ==
    /\ Decoded
    /\ \E i, j, k \in 1..Len(job.data) :
         job.data[i] = 0 /\ job.data[j] = 128 /\ job.data[k] = 192

\* ------------------------------------- properties of the outbound requests
\* C19: fetchLine fails (getWaterfallLine then falls back to the generator)
\* whenever the status is not 2xx or the body has fewer than 10 bytes, and
\* returns the decoded line, one sample per byte, for every 2xx response
\* with a body of at least 10 bytes.
C19_FetchLineOutcome ==
    \A r \in done : r.op = "line" =>
        LET line == r.result.line IN
        /\ r.fact.what = "status500" => line.source = "simulated"
        /\ r.fact.what = "body" /\ r.fact.len < MIN_WATERFALL_DATA_LENGTH
             => line.source = "simulated"
        /\ r.fact.what = "body" /\ r.fact.len >= MIN_WATERFALL_DATA_LENGTH
             => line.source = "real" /\ line.n = r.fact.len

C19_Witness ==
    \E r \in done :
        /\ r.op = "line" /\ r.fact.what = "body"
        /\ r.fact.len = MIN_WATERFALL_DATA_LENGTH
        /\ r.result.line.source = "real"

\* C20: the status check of a known station reports online=true, with the
\* time the probe took as latency, exactly when the probe got a 2xx or a
\* 405 response within the deadline.
C20_OnlineIffOkOr405 ==
    \A r \in done :
        r.op = "status" /\ FindUnique(r.stationId) # NoUrl /\ ~r.result.rejected =>
            /\ r.result.status.online <=>
                 /\ r.fact.what \in {"ok", "status405"}
                 /\ r.elapsed <= STATUS_TIMEOUT_MS
            /\ r.result.status.online => r.result.status.latencyMs = r.elapsed

C20_Witness ==
    \E r \in done :
        /\ r.op = "status" /\ r.fact.what = "status405"
        /\ r.result.status.online /\ r.result.status.latencyMs = 10

\* C21: a status probe that ends in a timeout, a network error or a status
\* other than 2xx/405 is reported as online=false with no latency and a
\* diagnostic error string, and the check never throws.
C21_OfflineHasErrorAndNoLatency ==
    \A r \in done : r.op = "status" =>
        /\ ~r.result.rejected
        /\ r.fact.what \in {"aborted", "networkError", "status500"} =>
             /\ ~r.result.status.online
             /\ r.result.status.latencyMs = Off
             /\ r.result.status.error # "none"

\* ----------------------------------- properties of concurrent header calls
\* the calls that stored a header for the URL
Stored(u) == {r \in done : r.op = "header" /\ r.url = u /\ r.fact.what = "body"}
SameHeader(h, text) ==
    /\ h.bands = parseWaterfallHeader(text, 0).bands
    /\ h.totalWidth = parseWaterfallHeader(text, 0).totalWidth

\* C22: without any locking, the cache holds for each URL at most one entry,
\* which is, whole and as it was stored, the header of the call that stored
\* last; a call served from the cache gets one stored header whole.
C22_LastWriteWins ==
    /\ DOMAIN waterfallHeaderCache = Urls
    /\ \A u \in Urls :
         LET e == waterfallHeaderCache[u] IN
         /\ e = NoHeader <=> Stored(u) = {}
         /\ e # NoHeader =>
              \E p \in Stored(u) :
                  /\ p.id = e.by /\ SameHeader(e, p.fact.text) /\ e.age = p.back
                  /\ \A q \in Stored(u) : p.back <= q.back
    /\ \A r \in done : r.op = "header" /\ r.hit =>
         \E p \in Stored(r.url) : p.id = r.result.header.by
                                  /\ SameHeader(r.result.header, p.fact.text)

\* two concurrent calls for one URL stored different headers
C22_Witness ==
    \E u \in Urls : \E p, q \in Stored(u) :
        /\ p.id # q.id /\ p.id \notin q.after /\ q.id \notin p.after
        /\ ~SameHeader(p.result.header, q.fact.text)
        /\ waterfallHeaderCache[u].by = p.id

\* C23: every request of the fetcher goes through the adapter selected for
\* the station URL: the header request is for that adapter's header
\* endpoint, the data request asks for 512 bins, and a station the Kiwi
\* adapter is selected for is never sent a request in the Standard
\* ('/~~...') format.
C23_RequestsGoThroughAdapter ==
    \A c \in calls :
        c.phase \in {"fetch", "body"} /\ c.op \in {"header", "line"} =>
            LET adapter == getAdapter(Chars(c.url)) IN
            /\ c.op = "header" /\ adapter # NoAdapter
                 => c.request.url = getWaterfallUrl(adapter, Chars(c.url))
            /\ c.op = "line" => c.request.w = numBins
            /\ adapter = "KiwiSdrAdapter" => ~includes(c.request.url, <<"/","~","~">>)

\* ------------------------------------------------- properties of the rings
RingsMade == made.done /\ job.fn = "getRingsForStation"

\* C24: getRingsForStation returns one ring per requested frequency, in the
\* order of the request, each with the requested frequency, the station's
\* position as centre and a radius above 0.
C24_OneRingPerFrequency ==
    RingsMade =>
        /\ Len(made.rings) = Len(job.freqs)
        /\ \A i \in 1..Len(job.freqs) :
             /\ made.rings[i].frequencyHz = job.freqs[i]
             /\ made.rings[i].centerLat = job.lat
             /\ made.rings[i].centerLon = job.lon
             /\ made.rings[i].radiusKm > 0

C24_Witness ==
    /\ RingsMade
    /\ Len(made.rings) = MaxFreqs
    /\ made.rings[1].frequencyHz = 21000000 /\ made.rings[2].frequencyHz = 7000000

\* C25: within one call, the ring of every frequency below 30 MHz has a
\* strictly greater radius than the ring of every frequency of 30 MHz or
\* more, by day and by night.
C25_HfBeyondVhf ==
    RingsMade =>
        \A i, j \in 1..Len(made.rings) :
            made.rings[i].frequencyHz < 30000000 /\ made.rings[j].frequencyHz >= 30000000
                => made.rings[i].radiusKm > made.rings[j].radiusKm

\* the shortest HF range, 160 m by day, next to a VHF ring
C25_Witness ==
    /\ RingsMade
    /\ isDay(job.hour)
    /\ \E i, j \in 1..Len(made.rings) :
         /\ made.rings[i].frequencyHz = 1800000 /\ made.rings[i].radiusKm = 200
         /\ made.rings[j].frequencyHz = 30000000

\* ------------------------------------------- properties of normalizeUrl
HasProtocol(url) ==
    \/ StartsWith(url, <<"h","t","t","p",":","/","/">>)
    \/ StartsWith(url, <<"h","t","t","p","s",":","/","/">>)
EndsInSlash(url) == url # <<>> /\ url[Len(url)] = "/"

\* the result is the URL, with 'http://' in front when it had no protocol,
\* less one trailing slash when there was one
NormalizedShape ==
    LET full == IF HasProtocol(job.url) THEN job.url
                ELSE <<"h","t","t","p",":","/","/">> \o job.url IN
    /\ Len(made.text) = IF EndsInSlash(full) THEN Len(full) - 1 ELSE Len(full)
    /\ made.text = SubSeq(full, 1, Len(made.text))

\* C26 as stated: normalizeUrl adds 'http://' when there is no http:// or
\* https:// prefix, keeps an existing protocol, removes one trailing slash,
\* and normalizing its result again returns the result unchanged.
C26_NormalizeIdempotent ==
    made.done /\ job.fn = "normalizeUrl" =>
        /\ NormalizedShape
        /\ made.twice => made.again = made.text

\* C26 amended: the same, the second normalization returning the result
\* unchanged whenever the result does not end in a slash.
C26_NormalizeIdempotentWithoutSlash ==
    made.done /\ job.fn = "normalizeUrl" =>
        /\ NormalizedShape
        /\ made.twice /\ ~EndsInSlash(made.text) => made.again = made.text

C26_Witness ==
    /\ job.fn = "normalizeUrl" /\ made.twice
    /\ ~HasProtocol(job.url) /\ EndsInSlash(job.url)
    /\ ~EndsInSlash(made.text)
    /\ made.again = made.text

\* ---------------------------------------------- the hook: its operations
HookStations == {"s1", "s2"}

\* setIsConnected, setIsConnecting and setError: React drops the updates of a
\* component that is not mounted
SetState(h, connected, connecting, err) ==
    IF h.phase = "mounted"
    THEN [h EXCEPT !.isConnected = connected, !.isConnecting = connecting, !.error = err]
    ELSE h

\* EventSource.close()
CloseSource(h, id) == [h EXCEPT !.open = {s \in @ : s.id # id}]

\* the object new EventSource(url) makes, told from the others that are open
FreshId(h) == CHOOSE i \in 1..(MaxRenders + 2) :
                 /\ i \notin {s.id : s \in h.open}
                 /\ \A k \in 1..(i - 1) : k \in {s.id : s \in h.open}

Opened(h, stationId) ==
    LET id == FreshId(h) IN
    [SetState(h, h.isConnected, TRUE, "null") EXCEPT
        !.open = @ \cup {[id |-> id, stationId |-> stationId, ready |-> "connecting"]},
        !.ref = id]

\* connect of the render with these props
connect_KeepsOld(h, stationId, enabled) ==
    IF stationId = NoStation \/ ~enabled THEN h ELSE Opened(h, stationId)
connect(h, stationId, enabled) ==
    IF stationId = NoStation \/ ~enabled THEN h
    ELSE Opened(IF h.ref # NoSource
                THEN [CloseSource(h, h.ref) EXCEPT
                         !.ref = NoSource,
                         !.replaced = @ \/ (\E s \in h.open : s.id = h.ref)]
                ELSE h,
                stationId)

\* the cleanup of the effect that connects
Cleanup(h) == IF h.ref # NoSource THEN [CloseSource(h, h.ref) EXCEPT !.ref = NoSource] ELSE h

\* the component mounts: the effect runs connect
Mount ==
    /\ hook.phase = "new"
    /\ \E stationId \in HookStations \cup {NoStation}, enabled \in BOOLEAN :
         hook' = [connect([hook EXCEPT !.phase = "mounted", !.stationId = stationId,
                                       !.enabled = enabled],
                          stationId, enabled)
                     EXCEPT !.last = "mount"]
    /\ UNCHANGED <<others, net, accepted, job, made, queue, sessionVars, calls, done, nextId,
                   waterfallHeaderCache>>

\* a render with new props: connect is a new function, the cleanup of the old
\* effect runs, then the new effect
Rerender ==
    /\ hook.phase = "mounted"
    /\ hook.renders < MaxRenders
    /\ \E stationId \in HookStations \cup {NoStation}, enabled \in BOOLEAN :
         hook' = [connect(Cleanup([hook EXCEPT !.stationId = stationId,
                                               !.enabled = enabled,
                                               !.renders = @ + 1]),
                          stationId, enabled)
                     EXCEPT !.last = "render"]
    /\ UNCHANGED <<others, net, accepted, job, made, queue, sessionVars, calls, done, nextId,
                   waterfallHeaderCache>>

\* the caller uses reconnect, the connect of the current render
Reconnect ==
    /\ hook.phase = "mounted"
    /\ hook.renders < MaxRenders
    /\ hook' = [connect([hook EXCEPT !.renders = @ + 1], hook.stationId, hook.enabled)
                   EXCEPT !.last = "reconnect"]
    /\ UNCHANGED <<others, net, accepted, job, made, queue, sessionVars, calls, done, nextId,
                   waterfallHeaderCache>>

\* the component unmounts: both cleanups run
Unmount ==
    /\ hook.phase = "mounted"
    /\ hook' = [Cleanup(hook) EXCEPT !.phase = "unmounted", !.last = "unmount"]
    /\ UNCHANGED <<others, net, accepted, job, made, queue, sessionVars, calls, done, nextId,
                   waterfallHeaderCache>>

\* onopen of an EventSource the server has accepted
EsOpen ==
    /\ hook.server = "up"
    /\ \E s \in hook.open :
         /\ s.ready = "connecting"
         /\ hook' = [SetState(hook, TRUE, FALSE, "null") EXCEPT
                        !.open = (@ \ {s}) \cup {[s EXCEPT !.ready = "open"]},
                        !.last = "open"]
    /\ UNCHANGED <<others, net, accepted, job, made, queue, sessionVars, calls, done, nextId,
                   waterfallHeaderCache>>

\* what onerror leaves of the hook, the retry timer aside
OnError(h, s) ==
    [CloseSource(SetState(h, FALSE, FALSE, "Connection lost"), s.id) EXCEPT
        !.ref = NoSource,
        !.failedAgain = @ \/ h.failed,
        !.failed = TRUE,
        !.last = "error"]

\* onerror of an EventSource that is not closed
EsError_NoRetry ==
    /\ hook.server = "down"
    /\ \E s \in hook.open : hook' = OnError(hook, s)
    /\ UNCHANGED <<others, net, accepted, job, made, queue, sessionVars, calls, done, nextId,
                   waterfallHeaderCache>>
EsError ==
    /\ hook.server = "down"
    /\ \E s \in hook.open :
         hook' = [OnError(hook, s) EXCEPT
                     !.timers = Append(@, [left |-> RetryDelay, enabled |-> TRUE,
                                           stationId |-> s.stationId])]
    /\ UNCHANGED <<others, net, accepted, job, made, queue, sessionVars, calls, done, nextId,
                   waterfallHeaderCache>>

\* the oldest retry timer is due: its callback tests the enabled and stationId
\* of its own render and calls the connect of that render
TimerFires ==
    /\ hook.timers # <<>>
    /\ Head(hook.timers).left = 0
    /\ LET t == Head(hook.timers)
           h == [hook EXCEPT !.timers = Tail(@), !.last = "timer"] IN
       hook' = IF t.enabled /\ t.stationId # NoStation
               THEN connect(h, t.stationId, t.enabled)
               ELSE h
    /\ UNCHANGED <<others, net, accepted, job, made, queue, sessionVars, calls, done, nextId,
                   waterfallHeaderCache>>

\* a second passes with no timer due
HookTick ==
    /\ hook.timers # <<>>
    /\ \A i \in 1..Len(hook.timers) : hook.timers[i].left > 0
    /\ hook' = [hook EXCEPT
                   !.timers = [i \in 1..Len(@) |->
                                  [@[i] EXCEPT !.left = IF @ > 1000 THEN @ - 1000 ELSE 0]],
                   !.last = "tick"]
    /\ UNCHANGED <<others, net, accepted, job, made, queue, sessionVars, calls, done, nextId,
                   waterfallHeaderCache>>

\* the server stops and starts accepting connections
ServerFails ==
    /\ hook.server = "up"
    /\ hook' = [hook EXCEPT !.server = "down", !.last = "down"]
    /\ UNCHANGED <<others, net, accepted, job, made, queue, sessionVars, calls, done, nextId,
                   waterfallHeaderCache>>

ServerRecovers ==
    /\ hook.server = "down"
    /\ hook' = [hook EXCEPT !.server = "up", !.last = "up"]
    /\ UNCHANGED <<others, net, accepted, job, made, queue, sessionVars, calls, done, nextId,
                   waterfallHeaderCache>>

HookNext ==
    \/ Mount
    \/ Rerender
    \/ Reconnect
    \/ Unmount
    \/ EsOpen
    \/ EsError
    \/ TimerFires
    \/ HookTick
    \/ ServerFails
    \/ ServerRecovers

HookInit == InitWith("hook")

HookSpec == HookInit /\ [][HookNext]_vars

\* timers run and the clock advances; an EventSource the server accepts opens
HookLiveSpec ==
    /\ HookSpec
    /\ WF_vars(TimerFires)
    /\ WF_vars(HookTick)
    /\ WF_vars(EsOpen)

\* ------------------------------------------------ properties of the hook
NotClosed == hook.open

Wanted == hook.phase = "mounted" /\ hook.enabled /\ hook.stationId # NoStation

\* C27: once the hook is unmounted or disabled (enabled false or stationId
\* null) no EventSource is open, and none is opened later, whatever errors
\* and retry timers were pending.
C27_NoSourceWhenOff ==
    hook.phase # "new" /\ ~Wanted => NotClosed = {}

\* C28: at most one EventSource is open per hook instance, the one
\* eventSourceRef holds; connect closes the existing one before it opens a new
\* one.
C28_AtMostOneSource ==
    /\ Cardinality(NotClosed) <= 1
    /\ \A s \in NotClosed : hook.ref = s.id

C28_Witness ==
    /\ hook.replaced
    /\ hook.last \in {"timer", "reconnect"}
    /\ Cardinality(NotClosed) = 1

\* C35: the EventSource the hook holds open targets the current stationId of
\* the hook: once the parameters have changed, no connection for the old
\* parameters is opened or left open.
C35_SourceTargetsCurrent ==
    hook.phase = "mounted" => \A s \in NotClosed : s.stationId = hook.stationId

\* what onerror does: the failed EventSource is closed, isConnected is false,
\* error is 'Connection lost' and a new attempt is due in 3 seconds
ErrorHandled ==
    hook'.last = "error" /\ hook' # hook =>
        /\ Cardinality(hook'.open) = Cardinality(hook.open) - 1
        /\ hook'.open \subseteq hook.open
        /\ hook'.phase = "mounted" => ~hook'.isConnected /\ hook'.error = "Connection lost"
        /\ Len(hook'.timers) = Len(hook.timers) + 1
        /\ hook'.timers[Len(hook'.timers)].left = 3000

\* C29: after a connection error the hook closes the failed EventSource, sets
\* isConnected false and error 'Connection lost', and tries again 3 seconds
\* later; this repeats without a cap while the hook is mounted and enabled,
\* and once the server accepts connections the hook gets connected.
C29_RetriesUntilConnected ==
    /\ [][ErrorHandled]_vars
    /\ (Wanted /\ hook.server = "up") ~> (hook.isConnected \/ ~(Wanted /\ hook.server = "up"))

C29_Witness ==
    /\ hook.failedAgain
    /\ hook.last = "open"
    /\ Wanted /\ hook.isConnected /\ hook.error = "null"

\* ------------------------------------------- the line queue: its operations
\* handleWaterfallLine: the line that arrives is pushed, and the oldest line is
\* shifted out when that made the queue longer than the limit
HandleWaterfallLine_Unbounded ==
    /\ queue.received < MaxLines
    /\ queue' = [queue EXCEPT !.received = @ + 1,
                              !.lines = Append(@, queue.received + 1),
                              !.last = "line"]
    /\ UNCHANGED <<others, net, accepted, job, made, hook, sessionVars, calls, done, nextId,
                   waterfallHeaderCache>>
HandleWaterfallLine ==
    /\ queue.received < MaxLines
    /\ LET pushed == Append(queue.lines, queue.received + 1) IN
       queue' = [queue EXCEPT !.received = @ + 1,
                              !.lines = IF Len(pushed) > QueueLimit THEN Tail(pushed)
                                        ELSE pushed,
                              !.last = "line"]
    /\ UNCHANGED <<others, net, accepted, job, made, hook, sessionVars, calls, done, nextId,
                   waterfallHeaderCache>>

\* one frame of the render loop: the oldest line of the queue is drawn when
\* streaming is on and the queue has a line, a generated noise line otherwise
RenderFrame ==
    /\ queue' = IF queue.useStreaming /\ Len(queue.lines) > 0
                THEN [queue EXCEPT !.drawn = Head(queue.lines), !.lines = Tail(@),
                                   !.last = "drawn"]
                ELSE [queue EXCEPT !.last = "noise"]
    /\ UNCHANGED <<others, net, accepted, job, made, hook, sessionVars, calls, done, nextId,
                   waterfallHeaderCache>>

\* the button that switches between the stream and the local generator
ToggleStreaming ==
    /\ queue' = [queue EXCEPT !.useStreaming = ~@, !.last = "toggle"]
    /\ UNCHANGED <<others, net, accepted, job, made, hook, sessionVars, calls, done, nextId,
                   waterfallHeaderCache>>

QueueNext ==
    \/ HandleWaterfallLine
    \/ RenderFrame
    \/ ToggleStreaming

QueueInit == InitWith("queue")

QueueSpec == QueueInit /\ [][QueueNext]_vars

\* ------------------------------------------- properties of the line queue
\* a line that arrives goes to the end, and pushes the oldest out of a full queue
ArrivalKept ==
    queue'.received # queue.received =>
        queue'.lines = IF Len(queue.lines) = 100
                       THEN Append(Tail(queue.lines), queue'.received)
                       ELSE Append(queue.lines, queue'.received)

\* a frame takes no line, or the oldest one, which it draws
FrameTakesOldest ==
    queue'.last \in {"drawn", "noise"} /\ queue'.received = queue.received =>
        \/ queue'.lines = queue.lines /\ queue'.drawn = queue.drawn
        \/ /\ queue.lines # <<>>
           /\ queue'.lines = Tail(queue.lines)
           /\ queue'.drawn = Head(queue.lines)

\* C30: the line queue of the client never holds more than 100 lines; a line
\* arriving at a full queue drops the oldest; a frame removes at most one
\* line, the oldest; lines are drawn in the order they arrived and at most
\* once.
C30_QueueBounded ==
    /\ [](Len(queue.lines) <= 100)
    /\ [][ArrivalKept]_vars
    /\ [][FrameTakesOldest]_vars
    /\ [][queue'.drawn # queue.drawn => queue'.drawn > queue.drawn]_vars

\* a line has arrived at the full queue after the first line was drawn, and
\* the oldest waiting line went undrawn
C30_Witness ==
    /\ queue.last = "line"
    /\ Len(queue.lines) = 100
    /\ queue.drawn >= 1
    /\ Head(queue.lines) > queue.drawn + 1

\* ------------------------------------------------ the store: its operations
\* the stations the browser may have fetched, with their frequency ranges
StoreStations ==
    { [id |-> "A", frequencyRanges |-> <<Range(100, 110)>>],
      [id |-> "B", frequencyRanges |-> <<Range(0, 200), Range(7000, 7300)>>],
      [id |-> "E", frequencyRanges |-> <<>>] }

\* the frequencies the user may tune to, inside and outside the ranges
StoreFrequencies == {0, 105, 5000}

RECURSIVE GCD(_, _)
GCD(a, b) == IF b = 0 THEN a ELSE GCD(b, a % b)

Lowest(num, den) == Zoom(num \div GCD(num, den), den \div GCD(num, den))

\* Math.min(zoomLevel * 1.5, 32)
ZoomedIn_Uncapped(z) == Lowest(3 * z.num, 2 * z.den)
ZoomedIn(z) ==
    IF 3 * z.num >= 32 * 2 * z.den THEN Zoom(32, 1) ELSE Lowest(3 * z.num, 2 * z.den)

\* Math.max(zoomLevel / 1.5, 1)
ZoomedOut(z) ==
    IF 2 * z.num <= 3 * z.den THEN Zoom(1, 1) ELSE Lowest(2 * z.num, 3 * z.den)

\* Math.round(x / d), for d > 0
Round(x, d) == (2 * x + d) \div (2 * d)

\* the view range zoomIn and zoomOut compute for the zoom level z: the new
\* range is full / z, centred on the selected frequency or on the view and
\* moved into the full range; all amounts are in units of 1 / (2 * z.num) Hz
ZoomedRange(s, z) ==
    LET full == s.fullFrequencyRange
        view == s.frequencyViewRange
        selected == s.selectedFrequencyHz
        twiceCenter == IF ~selected.isNull /\ selected.hz # 0
                       THEN 2 * selected.hz
                       ELSE view.minHz + view.maxHz
        unit == 2 * z.num
        halfRange == (full.maxHz - full.minHz) * z.den
        min0 == twiceCenter * z.num - halfRange
        max0 == twiceCenter * z.num + halfRange
        low == min0 < full.minHz * unit
        min1 == IF low THEN full.minHz * unit ELSE min0
        max1 == IF low THEN full.minHz * unit + 2 * halfRange ELSE max0
        high == max1 > full.maxHz * unit
        max2 == IF high THEN full.maxHz * unit ELSE max1
        min2 == IF high THEN full.maxHz * unit - 2 * halfRange ELSE min1
    IN  Range(Round(min2, unit), Round(max2, unit))

\* setSelectedStation(station)
Selected(s, station) ==
    LET fullRange == IF station.frequencyRanges # <<>>
                     THEN station.frequencyRanges[1]
                     ELSE NoRange IN
    [s EXCEPT !.selectedStationId = station.id,
              !.fullFrequencyRange = fullRange,
              !.frequencyViewRange = fullRange,
              !.zoomLevel = Zoom(1, 1)]

SetSelectedStation ==
    /\ \E station \in StoreStations \cup {[id |-> "null", frequencyRanges |-> <<>>]} :
         store' = Selected(store, station)
    /\ UNCHANGED <<net, accepted, job, made, hook, queue, mapView, crawl, sessionVars,
                   calls, done, nextId, waterfallHeaderCache>>

SetSelectedFrequency ==
    /\ \E hz \in {Frequency(f) : f \in StoreFrequencies} \cup {NoFrequency} :
         store' = [store EXCEPT !.selectedFrequencyHz = hz]
    /\ UNCHANGED <<net, accepted, job, made, hook, queue, mapView, crawl, sessionVars,
                   calls, done, nextId, waterfallHeaderCache>>

zoomIn ==
    /\ store' = IF store.fullFrequencyRange.isNull \/ store.frequencyViewRange.isNull
                THEN store
                ELSE [store EXCEPT
                         !.zoomLevel = ZoomedIn(@),
                         !.frequencyViewRange = ZoomedRange(store, ZoomedIn(store.zoomLevel))]
    /\ UNCHANGED <<net, accepted, job, made, hook, queue, mapView, crawl, sessionVars,
                   calls, done, nextId, waterfallHeaderCache>>

zoomOut ==
    /\ store' = IF store.fullFrequencyRange.isNull \/ store.frequencyViewRange.isNull
                THEN store
                ELSE [store EXCEPT
                         !.zoomLevel = ZoomedOut(@),
                         !.frequencyViewRange = ZoomedRange(store, ZoomedOut(store.zoomLevel))]
    /\ UNCHANGED <<net, accepted, job, made, hook, queue, mapView, crawl, sessionVars,
                   calls, done, nextId, waterfallHeaderCache>>

\* panLeft and panRight move the view by a quarter of its width; the amounts
\* are in quarters of a Hz
panLeft ==
    /\ store' = IF store.fullFrequencyRange.isNull \/ store.frequencyViewRange.isNull
                THEN store
                ELSE LET view == store.frequencyViewRange
                         viewRange == view.maxHz - view.minHz
                         moved == 4 * view.minHz - viewRange
                         newMin == IF 4 * store.fullFrequencyRange.minHz > moved
                                   THEN 4 * store.fullFrequencyRange.minHz ELSE moved
                     IN [store EXCEPT
                            !.frequencyViewRange =
                                Range(Round(newMin, 4), Round(newMin + 4 * viewRange, 4))]
    /\ UNCHANGED <<net, accepted, job, made, hook, queue, mapView, crawl, sessionVars,
                   calls, done, nextId, waterfallHeaderCache>>

panRight ==
    /\ store' = IF store.fullFrequencyRange.isNull \/ store.frequencyViewRange.isNull
                THEN store
                ELSE LET view == store.frequencyViewRange
                         viewRange == view.maxHz - view.minHz
                         moved == 4 * view.maxHz + viewRange
                         newMax == IF 4 * store.fullFrequencyRange.maxHz < moved
                                   THEN 4 * store.fullFrequencyRange.maxHz ELSE moved
                     IN [store EXCEPT
                            !.frequencyViewRange =
                                Range(Round(newMax - 4 * viewRange, 4), Round(newMax, 4))]
    /\ UNCHANGED <<net, accepted, job, made, hook, queue, mapView, crawl, sessionVars,
                   calls, done, nextId, waterfallHeaderCache>>

resetZoom ==
    /\ store' = IF store.fullFrequencyRange.isNull
                THEN store
                ELSE [store EXCEPT !.zoomLevel = Zoom(1, 1),
                                   !.frequencyViewRange = store.fullFrequencyRange]
    /\ UNCHANGED <<net, accepted, job, made, hook, queue, mapView, crawl, sessionVars,
                   calls, done, nextId, waterfallHeaderCache>>

StoreNext ==
    \/ SetSelectedStation
    \/ SetSelectedFrequency
    \/ zoomIn
    \/ zoomOut
    \/ panLeft
    \/ panRight
    \/ resetZoom

StoreInit == InitWith("store")

StoreSpec == StoreInit /\ [][StoreNext]_vars

\* ------------------------------------------------ properties of the store
\* C31: after any sequence of setSelectedStation, zoomIn, zoomOut, panLeft,
\* panRight and resetZoom, zoomLevel is at least 1 and at most 32.
C31_ZoomWithinLimits ==
    /\ store.zoomLevel.den > 0
    /\ store.zoomLevel.num >= store.zoomLevel.den
    /\ store.zoomLevel.num <= 32 * store.zoomLevel.den

\* zoomIn has reached the cap
C31_Witness ==
    /\ store.zoomLevel = Zoom(32, 1)
    /\ ~store.frequencyViewRange.isNull

\* C32: after any sequence of setSelectedStation, zoomIn, zoomOut, panLeft,
\* panRight and resetZoom on a station whose full range has minHz < maxHz,
\* the view range lies within the full range and is not empty, wherever the
\* selected frequency lies: fullMin <= viewMin < viewMax <= fullMax.
C32_ViewWithinFull ==
    ~store.fullFrequencyRange.isNull
        /\ store.fullFrequencyRange.minHz < store.fullFrequencyRange.maxHz =>
            /\ ~store.frequencyViewRange.isNull
            /\ store.fullFrequencyRange.minHz <= store.frequencyViewRange.minHz
            /\ store.frequencyViewRange.minHz < store.frequencyViewRange.maxHz
            /\ store.frequencyViewRange.maxHz <= store.fullFrequencyRange.maxHz

\* ------------------------------------------------ the crawler: one run
\* how many rows the websdr.org listing has at most, and how many crawls run
MaxRows == 2
MaxCrawls == 2

\* a parsed station: the station it is, its URL, and the source it came from
ParsedStation(station, url, source) == [station |-> station, url |-> url, source |-> source]

\* getSeedStations, its first and fourth entry
getSeedStations ==
    << ParsedStation("twente", TWENTE, "seed"),
       ParsedStation("suws", SUWS, "seed") >>

\* the links a row of the websdr.org table may carry
ListingRows ==
    { [station |-> "twente", href |-> TWENTE],
      [station |-> "twente", href |-> SubSeq(TWENTE, 8, Len(TWENTE) - 1)],
      [station |-> "example", href |-> EXAMPLE] }

Listings == SeqsUpTo(ListingRows, MaxRows)

\* parseTableRow: the URL of the station is the normalized link
parseTableRow(row) == ParsedStation(row.station, normalizeUrl(row.href), "websdr_org")

parseWebsdrHtml(listing) == [i \in 1..Len(listing) |-> parseTableRow(listing[i])]

\* Map.set: a key that is present keeps its place
MapSet(entries, station) ==
    IF \E i \in 1..Len(entries) : entries[i].url = station.url
    THEN [i \in 1..Len(entries) |->
             IF entries[i].url = station.url THEN station ELSE entries[i]]
    ELSE Append(entries, station)

RECURSIVE SetAll(_, _)
SetAll(entries, stations) ==
    IF stations = <<>> THEN entries
    ELSE SetAll(MapSet(entries, Head(stations)), Tail(stations))

mergeStationSources(webStations, seedStations) ==
    SetAll(SetAll(<<>>, seedStations), webStations)

\* upsertStation: the row with this URL is updated, or a row is created
upsertStation(table, station) == {r \in table : r.url # station.url} \cup {station}

\* crawlWebsdrOrg up to its loop: the listing is fetched and parsed, a fetch
\* that fails or is not ok counting as an empty listing, and merged with the
\* seed stations
CrawlStarts ==
    /\ crawl.pc = "idle"
    /\ crawl.crawls < MaxCrawls
    /\ \E fetched \in {"ok", "failed"}, listing \in Listings :
         /\ fetched = "failed" => listing = <<>>
         /\ LET webStations == parseWebsdrHtml(listing)
                seedStations == getSeedStations IN
            crawl' = [crawl EXCEPT
                         !.pc = "upserting",
                         !.crawls = @ + 1,
                         !.fetched = fetched,
                         !.webStations = webStations,
                         !.allStations = mergeStationSources(webStations, seedStations),
                         !.next = 1,
                         !.result = [NewResult EXCEPT
                                        !.stationsFromWebsdr = Len(webStations),
                                        !.stationsFromSeed = Len(seedStations)]]
    /\ UNCHANGED <<net, accepted, job, made, hook, queue, store, mapView, sessionVars,
                   calls, done, nextId, waterfallHeaderCache>>

\* one round of the loop: the station is upserted, or the upsert throws and
\* the message goes to errors
Upsert_Uncaught ==
    /\ crawl.pc = "upserting"
    /\ crawl.next <= Len(crawl.allStations)
    /\ \/ crawl' = [crawl EXCEPT
                       !.table = upsertStation(@, crawl.allStations[crawl.next]),
                       !.result.stationsProcessed = @ + 1,
                       !.next = @ + 1]
       \/ crawl' = [crawl EXCEPT !.result.errors = @ + 1, !.pc = "returned"]
    /\ UNCHANGED <<net, accepted, job, made, hook, queue, store, mapView, sessionVars,
                   calls, done, nextId, waterfallHeaderCache>>
Upsert ==
    /\ crawl.pc = "upserting"
    /\ crawl.next <= Len(crawl.allStations)
    /\ \/ crawl' = [crawl EXCEPT
                       !.table = upsertStation(@, crawl.allStations[crawl.next]),
                       !.result.stationsProcessed = @ + 1,
                       !.next = @ + 1]
       \/ crawl' = [crawl EXCEPT !.result.errors = @ + 1, !.next = @ + 1]
    /\ UNCHANGED <<net, accepted, job, made, hook, queue, store, mapView, sessionVars,
                   calls, done, nextId, waterfallHeaderCache>>

\* after the loop
CrawlReturns ==
    /\ crawl.pc = "upserting"
    /\ crawl.next > Len(crawl.allStations)
    /\ crawl' = [crawl EXCEPT !.pc = "returned",
                              !.result.success = crawl.result.stationsProcessed > 0]
    /\ UNCHANGED <<net, accepted, job, made, hook, queue, store, mapView, sessionVars,
                   calls, done, nextId, waterfallHeaderCache>>

\* six hours later
CrawlAgain ==
    /\ crawl.pc = "returned"
    /\ crawl.crawls < MaxCrawls
    /\ crawl' = [crawl EXCEPT !.pc = "idle"]
    /\ UNCHANGED <<net, accepted, job, made, hook, queue, store, mapView, sessionVars,
                   calls, done, nextId, waterfallHeaderCache>>

CrawlNext ==
    \/ CrawlStarts
    \/ Upsert
    \/ CrawlReturns
    \/ CrawlAgain

CrawlInit == InitWith("crawl")

CrawlSpec == CrawlInit /\ [][CrawlNext]_vars

\* ---------------------------------------------- properties of the crawler
InBoth(k) ==
    /\ \E i \in 1..Len(crawl.webStations) : crawl.webStations[i].station = k
    /\ \E i \in 1..Len(getSeedStations) : getSeedStations[i].station = k

\* C33: merging prefers the websdr.org data and yields one entry per station:
\* a station of both the websdr.org listing and the seed data is in the merged
\* list exactly once, with the websdr.org data, and the station table never
\* holds the same station twice.
C33_OneEntryPerStation ==
    /\ crawl.pc # "idle" =>
         \A k \in {"twente", "suws", "example"} :
            InBoth(k) =>
               /\ Cardinality({i \in 1..Len(crawl.allStations) :
                                  crawl.allStations[i].station = k}) = 1
               /\ \A i \in 1..Len(crawl.allStations) :
                     crawl.allStations[i].station = k
                        => crawl.allStations[i].source = "websdr_org"
    /\ \A r, q \in crawl.table : r.station = q.station => r.url = q.url

\* C34: crawlWebsdrOrg returns a result whatever fails: a failed websdr.org
\* fetch leaves the seed stations to upsert, every merged station either
\* counts in stationsProcessed or adds one entry to errors, and success is
\* true exactly when stationsProcessed is above 0.
C34_CrawlAccounts ==
    /\ crawl.pc = "upserting" =>
         crawl.result.stationsProcessed + crawl.result.errors = crawl.next - 1
    /\ crawl.pc # "idle" /\ crawl.fetched = "failed" =>
         crawl.allStations = getSeedStations
    /\ crawl.pc = "returned" =>
         /\ crawl.result.stationsProcessed + crawl.result.errors = Len(crawl.allStations)
         /\ crawl.result.success <=> crawl.result.stationsProcessed > 0

\* the fetch failed, one seed station was stored and the other one was not
C34_Witness ==
    /\ crawl.pc = "returned"
    /\ crawl.fetched = "failed"
    /\ crawl.result.stationsProcessed = 1
    /\ crawl.result.errors = 1
    /\ crawl.result.success

\* ------------------------------------------- the map view: station clicks
\* the user clicks a station: handleStationClick starts fetchStation(id)
StationClick ==
    /\ Len(mapView.clicks) < MaxClicks
    /\ \E station \in StoreStations :
         mapView' = [mapView EXCEPT
                        !.clicks = Append(@, [id |-> station.id, pc |-> "fetchStation"])]
    /\ UNCHANGED <<net, accepted, job, made, hook, queue, store, crawl, sessionVars,
                   calls, done, nextId, waterfallHeaderCache>>

\* fetchStation of one click resolves: the station is selected and
\* fetchPropagation starts
StationArrives ==
    /\ \E i \in 1..Len(mapView.clicks) :
         /\ mapView.clicks[i].pc = "fetchStation"
         /\ store' = Selected(store, CHOOSE station \in StoreStations :
                                        station.id = mapView.clicks[i].id)
         /\ mapView' = [mapView EXCEPT !.clicks[i].pc = "fetchPropagation"]
    /\ UNCHANGED <<net, accepted, job, made, hook, queue, crawl, sessionVars,
                   calls, done, nextId, waterfallHeaderCache>>

\* fetchPropagation of one click resolves: its rings are shown
RingsArrive ==
    /\ \E i \in 1..Len(mapView.clicks) :
         /\ mapView.clicks[i].pc = "fetchPropagation"
         /\ mapView' = [mapView EXCEPT !.clicks[i].pc = "done",
                                       !.propagationRings = mapView.clicks[i].id]
    /\ UNCHANGED <<net, accepted, job, made, hook, queue, store, crawl, sessionVars,
                   calls, done, nextId, waterfallHeaderCache>>

\* a request of one click rejects: the catch logs it
RequestFails ==
    /\ \E i \in 1..Len(mapView.clicks) :
         /\ mapView.clicks[i].pc \in {"fetchStation", "fetchPropagation"}
         /\ mapView' = [mapView EXCEPT !.clicks[i].pc = "failed"]
    /\ UNCHANGED <<net, accepted, job, made, hook, queue, store, crawl, sessionVars,
                   calls, done, nextId, waterfallHeaderCache>>

ClickNext ==
    \/ StationClick
    \/ StationArrives
    \/ RingsArrive
    \/ RequestFails

ClickInit == InitWith("click")

ClickSpec == ClickInit /\ [][ClickNext]_vars

\* ---------------------------------------------- properties of the clicks
\* C36: when the user has clicked stations one after the other and all the
\* requests have completed, in whatever order, the selected station is the
\* last one clicked and the rings on the map are the rings of that station.
C36_LastClickWins ==
    /\ mapView.clicks # <<>>
    /\ \A i \in 1..Len(mapView.clicks) : mapView.clicks[i].pc = "done"
    => /\ store.selectedStationId = mapView.clicks[Len(mapView.clicks)].id
       /\ mapView.propagationRings = mapView.clicks[Len(mapView.clicks)].id

=============================================================================
